---------------------------- MODULE Spec2Model ----------------------------
(***************************************************************************)
(* A model of the answer normalizers and scorers of utils/eval_utils.py   *)
(* (normalize_token, split_prediction, denotation_accuracy,               *)
(* normalize_answer, is_answer_correct).                                  *)
(* and of the table renderers of utils/table_utils.py                    *)
(* (format_table_token_efficient, serialize_table_for_prompt).            *)
(*                                                                         *)
(* A Python str is modelled as a sequence of one-character strings, so    *)
(* that stripping, splitting, replacing and parsing are computed the way  *)
(* the code computes them.                                                *)
(***************************************************************************)
EXTENDS Integers, Sequences, FiniteSets, TLC

(***************************************************************************)
(* Bounds of the model.                                                   *)
(***************************************************************************)
\* longest input string given to normalize_token
MaxLen == 3

\* the value of a variable that holds nothing yet (Python: unbound / None)
None == "None"

\* how a call ended: it returned a value, or it raised an exception
Returned(v) == [kind |-> "return", value |-> v]

Raised(e) == [kind |-> "raise", value |-> e]

\* no call has ended yet
NoResult == [kind |-> "none"]

(***************************************************************************)
(* Python str methods.                                                    *)
(***************************************************************************)
\* the characters str.strip() and str.split() treat as whitespace
Whitespace == {" ", "\t", "\n"}

Digits == {"0", "1", "2", "3", "4", "5", "6", "7", "8", "9"}

UpperCase == <<"A","B","C","D","E","F","G","H","I","J","K","L","M",
               "N","O","P","Q","R","S","T","U","V","W","X","Y","Z">>

LowerCase == <<"a","b","c","d","e","f","g","h","i","j","k","l","m",
               "n","o","p","q","r","s","t","u","v","w","x","y","z">>

\* str.lower() on one character
LowerChar(c) ==
    IF \E i \in DOMAIN UpperCase : UpperCase[i] = c
    THEN LowerCase[CHOOSE i \in DOMAIN UpperCase : UpperCase[i] = c]
    ELSE c

\* str.lower()
Lower(x) == [i \in DOMAIN x |-> LowerChar(x[i])]

RECURSIVE LStrip(_, _)
\* str.lstrip(chars)
LStrip(x, chars) ==
    IF x # <<>> /\ Head(x) \in chars THEN LStrip(Tail(x), chars) ELSE x

RECURSIVE RStrip(_, _)
\* str.rstrip(chars)
RStrip(x, chars) ==
    IF x # <<>> /\ x[Len(x)] \in chars
    THEN RStrip(SubSeq(x, 1, Len(x) - 1), chars)
    ELSE x

\* str.strip(chars): every leading and every trailing character in chars
Strip(x, chars) == RStrip(LStrip(x, chars), chars)

RECURSIVE Split(_, _)
\* str.split(sep) for a one-character sep: the pieces, empty ones included
Split(x, sep) ==
    IF \A i \in DOMAIN x : x[i] # sep
    THEN <<x>>
    ELSE LET k == CHOOSE i \in DOMAIN x :
                     x[i] = sep /\ \A j \in 1..(i - 1) : x[j] # sep
         IN  <<SubSeq(x, 1, k - 1)>> \o Split(SubSeq(x, k + 1, Len(x)), sep)

RECURSIVE SplitWhitespace(_)
\* str.split() with no argument: the maximal runs of non-whitespace
SplitWhitespace(x) ==
    LET y == LStrip(x, Whitespace)
    IN  IF y = <<>>
        THEN <<>>
        ELSE IF \A i \in DOMAIN y : y[i] \notin Whitespace
             THEN <<y>>
             ELSE LET k == CHOOSE i \in DOMAIN y :
                               /\ y[i] \in Whitespace
                               /\ \A j \in 1..(i - 1) : y[j] \notin Whitespace
                  IN  <<SubSeq(y, 1, k - 1)>>
                          \o SplitWhitespace(SubSeq(y, k + 1, Len(y)))

RECURSIVE Join(_, _)
\* sep.join(pieces)
Join(pieces, sep) ==
    IF pieces = <<>>
    THEN <<>>
    ELSE IF Len(pieces) = 1
         THEN pieces[1]
         ELSE pieces[1] \o sep \o Join(Tail(pieces), sep)

\* str.replace(c, ""): every occurrence of the character removed
Remove(x, c) == SelectSeq(x, LAMBDA ch : ch # c)

\* c in x, for a one-character c
HasChar(x, c) == \E i \in DOMAIN x : x[i] = c

\* sub in x: sub occurs in x as a substring
Contains(x, sub) ==
    \E i \in 0..(Len(x) - Len(sub)) : SubSeq(x, i + 1, i + Len(sub)) = sub

\* x.endswith(c), x.startswith(c)
EndsWith(x, c) == x # <<>> /\ x[Len(x)] = c

StartsWith(x, c) == x # <<>> /\ x[1] = c

\* n copies of the character c
Rep(c, n) == [i \in 1..n |-> c]

(***************************************************************************)
(* decimal.Decimal: the value is (sign, coefficient digits, exponent).    *)
(* The strings of the model hold no exponent marker and no letters of     *)
(* "inf" or "nan", so Decimal(t) accepts exactly: optional surrounding    *)
(* whitespace, an optional "-", and digits with at most one ".", at least *)
(* one digit in all.                                                      *)
(***************************************************************************)
\* whether Decimal(t) succeeds (no InvalidOperation)
IsDecimal(t) ==
    LET u == Strip(t, Whitespace)
        b == IF StartsWith(u, "-") THEN Tail(u) ELSE u
    IN  /\ \A i \in DOMAIN b : b[i] \in Digits \cup {"."}
        /\ \E i \in DOMAIN b : b[i] \in Digits
        /\ Cardinality({i \in DOMAIN b : b[i] = "."}) <= 1

\* Decimal(t) for a t that IsDecimal accepts: the coefficient has its
\* leading zeros dropped (one digit is kept), the exponent is minus the
\* number of fractional digits, and the sign of a zero is kept
Decimal(t) ==
    LET u    == Strip(t, Whitespace)
        neg  == StartsWith(u, "-")
        b    == IF neg THEN Tail(u) ELSE u
        parts == Split(b, ".")
        intpart  == parts[1]
        fracpart == IF Len(parts) > 1 THEN parts[2] ELSE <<>>
        all  == LStrip(intpart \o fracpart, {"0"})
    IN  [sign |-> neg,
         int  |-> IF all = <<>> THEN <<"0">> ELSE all,
         exp  |-> 0 - Len(fracpart)]

\* the decimal digits of a natural number, for the exponent of str(d)
RECURSIVE NatStr(_)
NatStr(n) ==
    LET last == <<"0","1","2","3","4","5","6","7","8","9">>[(n % 10) + 1]
    IN  IF n < 10 THEN <<last>> ELSE NatStr(n \div 10) \o <<last>>

\* str(d): plain notation when exp <= 0 and the number is not below 1E-6 in
\* adjusted exponent; scientific notation otherwise
DecimalStr(d) ==
    LET leftdigits == d.exp + Len(d.int)
        dotplace == IF d.exp <= 0 /\ leftdigits > -6 THEN leftdigits ELSE 1
        intpart  == IF dotplace <= 0
                    THEN <<"0">>
                    ELSE IF dotplace >= Len(d.int)
                         THEN d.int \o Rep("0", dotplace - Len(d.int))
                         ELSE SubSeq(d.int, 1, dotplace)
        fracpart == IF dotplace <= 0
                    THEN <<".">> \o Rep("0", 0 - dotplace) \o d.int
                    ELSE IF dotplace >= Len(d.int)
                         THEN <<>>
                         ELSE <<".">> \o SubSeq(d.int, dotplace + 1, Len(d.int))
        e    == leftdigits - dotplace
        exp  == IF e = 0
                THEN <<>>
                ELSE <<"E">> \o (IF e < 0 THEN <<"-">> ELSE <<"+">>)
                         \o NatStr(IF e < 0 THEN 0 - e ELSE e)
    IN  (IF d.sign THEN <<"-">> ELSE <<>>) \o intpart \o fracpart \o exp

\* format(d, "f"): always plain notation, the digits of the coefficient
\* placed by the exponent
DecimalFormatF(d) ==
    LET leftdigits == d.exp + Len(d.int)
        intpart  == IF leftdigits <= 0
                    THEN <<"0">>
                    ELSE IF leftdigits >= Len(d.int)
                         THEN d.int \o Rep("0", leftdigits - Len(d.int))
                         ELSE SubSeq(d.int, 1, leftdigits)
        fracpart == IF leftdigits <= 0
                    THEN Rep("0", 0 - leftdigits) \o d.int
                    ELSE IF leftdigits >= Len(d.int)
                         THEN <<>>
                         ELSE SubSeq(d.int, leftdigits + 1, Len(d.int))
    IN  (IF d.sign THEN <<"-">> ELSE <<>>) \o intpart
            \o (IF d.exp < 0 THEN <<".">> \o fracpart ELSE <<>>)

(***************************************************************************)
(* normalize_token, line by line.                                         *)
(***************************************************************************)
\* line 14: s.strip().strip('"').strip("'").lower()
StripQuotesLower(str) ==
    Lower(Strip(Strip(Strip(str, Whitespace), {"\""}), {"'"}))

\* line 15: " ".join(s0.split())
CollapseWhitespace(str) == Join(SplitWhitespace(str), <<" ">>)

\* line 16: s0.strip(" .,")
StripPunctuation(str) == Strip(str, {" ", ".", ","})

\* lines 14-16: the value of s0
NormS0(str) == StripPunctuation(CollapseWhitespace(StripQuotesLower(str)))

\* lines 18-19
DropPercent(t) == IF EndsWith(t, "%") THEN SubSeq(t, 1, Len(t) - 1) ELSE t

\* lines 20-21
DropDollar(t) == IF StartsWith(t, "$") THEN Tail(t) ELSE t

\* lines 17-21: the value of t handed to Decimal
NormT(s0) == DropDollar(DropPercent(Remove(s0, ",")))

\* line 24: the token of a parsed number
NumberToken(d) ==
    IF HasChar(DecimalStr(d), ".")
    THEN RStrip(RStrip(DecimalFormatF(d), {"0"}), {"."})
    ELSE DecimalStr(d)

\* a slip: the cleaned string t is returned instead of s0
FallbackTokenCleaned(s0, t) == t

\* line 27: what is returned when Decimal(t) raises
FallbackToken(s0, t) == s0

\* normalize_token(s)
normalize_token(str) ==
    LET s0 == NormS0(str)
        t  == NormT(s0)
    IN  IF IsDecimal(t) THEN NumberToken(Decimal(t)) ELSE FallbackToken(s0, t)

(***************************************************************************)
(* split_prediction.                                                      *)
(***************************************************************************)
\* lines 38 and 40: [x.strip() for x in txt.split(sep) if x.strip()]
Pieces(txt, sep) ==
    LET stripped == [k \in DOMAIN Split(txt, sep) |->
                        Strip(Split(txt, sep)[k], Whitespace)]
    IN  SelectSeq(stripped, LAMBDA x : x # <<>>)

\* a slip: the comma split is taken only when the "|" split gives nothing
RawOffByOne(txt) ==
    IF Len(Pieces(txt, "|")) < 1 THEN Pieces(txt, ",") ELSE Pieces(txt, "|")

\* lines 38-40: the value of raw
Raw(txt) ==
    IF Len(Pieces(txt, "|")) <= 1 THEN Pieces(txt, ",") ELSE Pieces(txt, "|")

\* split_prediction(pred_text, gold_count), for a str pred_text
split_prediction(pred_text, gold_count) ==
    LET txt == Strip(pred_text, Whitespace)
        raw == Raw(txt)
    IN  IF gold_count <= 1
        THEN <<normalize_token(txt)>>
        ELSE IF raw # <<>>
             THEN [k \in DOMAIN raw |-> normalize_token(raw[k])]
             ELSE <<normalize_token(txt)>>

(***************************************************************************)
(* denotation_accuracy.                                                   *)
(***************************************************************************)
\* a slip: no check of the lengths (zip then truncates to the shorter)
LengthsUnchecked(g, p) == TRUE

\* line 47: the condition of the assert statement
LengthsAgree(g, p) == Len(g) = Len(p)

\* lines 50 and 51: {normalize_token(x) for x in xs}
TokenSet(xs) == {normalize_token(xs[k]) : k \in DOMAIN xs}

\* a slip: a prediction within the gold set counts as correct
ExampleCorrectSubset(g, p) == TokenSet(p) \subseteq TokenSet(g)

\* a slip: the normalized answers are compared as lists
ExampleCorrectAsLists(g, p) ==
    [k \in DOMAIN g |-> normalize_token(g[k])]
        = [k \in DOMAIN p |-> normalize_token(p[k])]

\* line 52: gset == pset
ExampleCorrect(g, p) == TokenSet(g) = TokenSet(p)

\* a / b of Python: the quotient kept as numerator and denominator
Divide(a, b) ==
    IF b = 0 THEN Raised("ZeroDivisionError") ELSE Returned([num |-> a, den |-> b])

\* the float 0.0
Zero == [num |-> 0, den |-> 1]

\* the float 1.0
One == [num |-> 1, den |-> 1]

\* a slip: no guard for empty inputs
AccuracyUnguarded(n, g) == Divide(n, Len(g))

\* line 54: correct / len(golds) if golds else 0.0
Accuracy(n, g) == IF g # <<>> THEN Divide(n, Len(g)) ELSE Returned(Zero)

\* the number of pairs zip(golds, preds) yields
ZipLen(g, p) == IF Len(g) <= Len(p) THEN Len(g) ELSE Len(p)

(***************************************************************************)
(* normalize_answer and is_answer_correct.                                *)
(* A character outside ASCII is written by its code point: "U+2013" is    *)
(* the en dash, "U+2014" the em dash, "U+2212" the minus sign.            *)
(***************************************************************************)
RECURSIVE DigitCommas(_)
\* line 67: re.sub(r'(\d),(\d)', r'\1\2', text), matches found left to
\* right without overlap
DigitCommas(x) ==
    IF Len(x) < 3
    THEN x
    ELSE IF x[1] \in Digits /\ x[2] = "," /\ x[3] \in Digits
         THEN <<x[1], x[3]>> \o DigitCommas(SubSeq(x, 4, Len(x)))
         ELSE <<x[1]>> \o DigitCommas(Tail(x))

\* line 71: re.sub(r'[<en dash><em dash><minus sign>]', '-', text)
ReplaceDashes(x) ==
    [k \in DOMAIN x |->
        IF x[k] \in {"U+2013", "U+2014", "U+2212"} THEN "-" ELSE x[k]]

RECURSIVE CollapseRuns(_)
\* line 73: re.sub(r'\s+', ' ', text)
CollapseRuns(x) ==
    IF x = <<>>
    THEN <<>>
    ELSE IF Head(x) \in Whitespace
         THEN <<" ">> \o CollapseRuns(LStrip(x, Whitespace))
         ELSE <<Head(x)>> \o CollapseRuns(Tail(x))

\* a normalizer that strips one trailing period only
StripTrailingPeriodsOnce(x) ==
    IF EndsWith(x, ".") THEN SubSeq(x, 1, Len(x) - 1) ELSE x

\* line 69: text.rstrip('.')
StripTrailingPeriods(x) == RStrip(x, {"."})

\* normalize_answer(text), for a str text
normalize_answer(text) ==
    IF text = <<>>
    THEN <<>>
    ELSE LET lowered == Strip(Lower(text), Whitespace)
             nocomma == DigitCommas(lowered)
             noperiod == StripTrailingPeriods(nocomma)
             dashed  == ReplaceDashes(noperiod)
         IN  Strip(CollapseRuns(dashed), Whitespace)

\* a scorer that rejects an empty gold collection only
NothingToCompareGoldOnly(prediction, answers) == answers = <<>>

\* line 80: not predicted or not expected_answers
NothingToCompare(prediction, answers) == prediction = <<>> \/ answers = <<>>

IDontKnow == <<"i", " ", "d", "o", "n", "'", "t", " ", "k", "n", "o", "w">>

DontKnow == <<"d", "o", "n", "'", "t", " ", "k", "n", "o", "w">>

Unknown == <<"u", "n", "k", "n", "o", "w", "n">>

\* line 87: the prediction is an abstention
IsAbstention(pred_norm) ==
    Contains(pred_norm, IDontKnow) \/ Contains(pred_norm, DontKnow)

\* a slip: "unknown" is not accepted as an abstaining gold answer
GoldAbstainsExactly(exp_norm) ==
    Contains(exp_norm, IDontKnow) \/ Contains(exp_norm, DontKnow)

\* line 91: the gold answer is an abstention too
GoldAbstains(exp_norm) ==
    \/ Contains(exp_norm, IDontKnow)
    \/ Contains(exp_norm, DontKnow)
    \/ Contains(exp_norm, Unknown)

(***************************************************************************)
(* float(x).  The strings of the model hold no exponent marker, no "_",   *)
(* no "inf" and no "nan", so float accepts exactly: optional surrounding  *)
(* whitespace, an optional "-", and digits with at most one ".", at least *)
(* one digit in all.  The value is kept exactly, in units of 1e-7: the    *)
(* whole part and the fractional part, both with the sign of the number.  *)
(* The numerals of the model have at most 7 fractional digits.            *)
(***************************************************************************)
\* whether float(x) succeeds (no ValueError)
IsFloat(x) ==
    LET u == Strip(x, Whitespace)
        b == IF StartsWith(u, "-") THEN Tail(u) ELSE u
    IN  /\ \A k \in DOMAIN b : b[k] \in Digits \cup {"."}
        /\ \E k \in DOMAIN b : b[k] \in Digits
        /\ Cardinality({k \in DOMAIN b : b[k] = "."}) <= 1

\* the value of one digit
DigitValue(c) ==
    CHOOSE v \in 0..9 : <<"0","1","2","3","4","5","6","7","8","9">>[v + 1] = c

RECURSIVE DigitsValue(_)
\* the natural number a string of digits denotes
DigitsValue(ds) ==
    IF ds = <<>>
    THEN 0
    ELSE 10 * DigitsValue(SubSeq(ds, 1, Len(ds) - 1)) + DigitValue(ds[Len(ds)])

\* 1.0 in units of 1e-7
UnitsPerOne == 10 * 1000 * 1000

\* float(x) for an x that IsFloat accepts
Float(x) ==
    LET u     == Strip(x, Whitespace)
        neg   == StartsWith(u, "-")
        b     == IF neg THEN Tail(u) ELSE u
        parts == Split(b, ".")
        frac  == IF Len(parts) > 1 THEN parts[2] ELSE <<>>
        sgn   == IF neg THEN -1 ELSE 1
    IN  [whole |-> sgn * DigitsValue(parts[1]),
         units |-> sgn * DigitsValue(frac \o Rep("0", 7 - Len(frac)))]

\* line 108, the threshold 1e-6, in units of 1e-7
Tolerance == 10

\* a scorer whose numbers match only when equal
CloseOnlyWhenEqual(a, b) == a.whole = b.whole /\ a.units = b.units

\* line 108: abs(pred_num - exp_num) < 1e-6
Close(a, b) ==
    LET dw == a.whole - b.whole
        d  == dw * UnitsPerOne + (a.units - b.units)
    IN  /\ dw \in {-1, 0, 1}
        /\ -Tolerance < d
        /\ d < Tolerance

\* lines 106-108: both parse as numbers and the numbers are close
NumbersClose(pred_norm, exp_norm) ==
    /\ IsFloat(Remove(pred_norm, ","))
    /\ IsFloat(Remove(exp_norm, ","))
    /\ Close(Float(Remove(pred_norm, ",")), Float(Remove(exp_norm, ",")))

\* a slip: a gold answer that does not parse ends the comparison
GoldOutcomeStopsOnError(pred_norm, exp_norm) ==
    IF pred_norm = exp_norm
    THEN "return True"
    ELSE IF ~IsFloat(Remove(pred_norm, ",")) \/ ~IsFloat(Remove(exp_norm, ","))
         THEN "return False"
         ELSE IF NumbersClose(pred_norm, exp_norm)
              THEN "return True"
              ELSE "continue"

\* lines 98-111: one gold answer compared; a ValueError is passed over
GoldOutcome(pred_norm, exp_norm) ==
    IF pred_norm = exp_norm
    THEN "return True"
    ELSE IF NumbersClose(pred_norm, exp_norm)
         THEN "return True"
         ELSE "continue"

(***************************************************************************)
(* utils/table_utils.py.  A table is a record with a header, a list of    *)
(* str, and rows, a list of lists of str.  A question that is None and a  *)
(* question that is "" are both falsy to the code: both are <<>> here.    *)
(***************************************************************************)
\* str.replace(c, d), for one-character c and d
Replace(x, c, d) == [k \in DOMAIN x |-> IF x[k] = c THEN d ELSE x[k]]

\* str.zfill(2): zeros after a leading sign, up to two characters
ZFill2(p) ==
    IF Len(p) >= 2
    THEN p
    ELSE IF p = <<>>
         THEN <<"0", "0">>
         ELSE IF p[1] \in {"+", "-"} THEN <<p[1], "0">> ELSE <<"0">> \o p

\* xs[:n]
Take(xs, n) ==
    LET m == IF n < 0 THEN Len(xs) + n ELSE n
    IN  SubSeq(xs, 1, IF m < Len(xs) THEN m ELSE Len(xs))

\* list(range(n)), counted from 1
Indices(n) == [k \in 1..n |-> k]

\* a cleaner that leaves the newlines of a value in place
KeepNewlines(x) == x

\* line 76: x.replace("\n", " ")
ReplaceNewlines(x) == Replace(x, "\n", " ")

\* lines 74-78 of clean_value: trimmed, newlines and delimiters turned into
\* spaces, commas removed
Scrub(x, delimiter) ==
    Remove(Replace(ReplaceNewlines(Strip(x, Whitespace)), delimiter, " "), ",")

\* lines 80-83 of clean_value: three "/"-separated parts, the third of four
\* characters, are rearranged as third-first-second
RewriteDate(x) ==
    LET parts == Split(x, "/")
    IN  IF HasChar(x, "/") /\ Len(parts) = 3 /\ Len(parts[3]) = 4
        THEN parts[3] \o <<"-">> \o ZFill2(parts[1]) \o <<"-">> \o ZFill2(parts[2])
        ELSE x

\* lines 70-84: clean_value(x), for a str x
clean_value(x, delimiter) == RewriteDate(Scrub(x, delimiter))

\* set(x.lower().split())
Words(x) ==
    LET ws == SplitWhitespace(Lower(x)) IN {ws[k] : k \in DOMAIN ws}

\* line 97: the words that make a header relevant to any question
Keywords ==
    <<
       <<"d", "a", "t", "e">>,
       <<"y", "e", "a", "r">>,
       <<"n", "u", "m", "b", "e", "r">>,
       <<"c", "o", "u", "n", "t">>,
       <<"t", "o", "t", "a", "l">>,
       <<"a", "m", "o", "u", "n", "t">>,
       <<"v", "a", "l", "u", "e">>,
       <<"p", "l", "a", "c", "i", "n", "g">>,
       <<"p", "l", "a", "c", "e">>,
       <<"r", "a", "n", "k">>,
       <<"p", "o", "s", "i", "t", "i", "o", "n">>,
       <<"f", "i", "n", "i", "s", "h">>,
       <<"r", "e", "s", "u", "l", "t">>
    >>

\* a selection that looks for the keywords among the words of the header
HeaderRelevantWholeWords(question_words, header) ==
    \/ question_words \cap Words(header) # {}
    \/ \E k \in DOMAIN Keywords : Keywords[k] \in Words(header)

\* lines 93-97: the header shares a word with the question, or holds a
\* keyword as a substring
HeaderRelevant(question_words, header) ==
    \/ question_words \cap Words(header) # {}
    \/ \E k \in DOMAIN Keywords : Contains(Lower(header), Keywords[k])

\* line 102: fewer relevant columns than this and every column is kept
MinRelevantColumns == 2

\* lines 87-107: relevant_indices (counted from 1)
RelevantIndices(headers, question) ==
    LET all == Indices(Len(headers))
        rel == SelectSeq(all, LAMBDA k : HeaderRelevant(Words(question), headers[k]))
    IN  IF question # <<>>
        THEN IF Len(rel) < MinRelevantColumns THEN all ELSE rel
        ELSE all

\* line 115: " ".join(str(cell) for cell in row).lower()
RowText(row) == Lower(Join(row, <<" ">>))

\* line 116: some word of the question occurs in the text of the row
RowRelevant(question_words, row) ==
    \E w \in question_words : Contains(RowText(row), w)

\* line 120: fewer relevant rows than this and the first rows are kept
MinRelevantRows == 10

\* a selection that keeps the relevant rows however few they are
RelevantRowsNoFallback(rows, question, max_rows) ==
    IF question # <<>> /\ Len(rows) > max_rows
    THEN Take(SelectSeq(rows, LAMBDA r : RowRelevant(Words(question), r)), max_rows)
    ELSE Take(rows, max_rows)

\* lines 110-125: relevant_rows
RelevantRows(rows, question, max_rows) ==
    IF question # <<>> /\ Len(rows) > max_rows
    THEN LET rel == SelectSeq(rows, LAMBDA r : RowRelevant(Words(question), r))
         IN  IF Len(rel) < MinRelevantRows
             THEN Take(rows, max_rows)
             ELSE Take(rel, max_rows)
    ELSE Take(rows, max_rows)

\* line 137: [row[i] for i in relevant_indices if i < len(row)]
FilteredRow(row, relevant_indices) ==
    LET present == SelectSeq(relevant_indices, LAMBDA k : k <= Len(row))
    IN  [k \in DOMAIN present |-> row[present[k]]]

\* lines 131, 138: delimiter.join(clean_value(v) for v in values)
Line(values, delimiter) ==
    Join([k \in DOMAIN values |-> clean_value(values[k], delimiter)],
         <<delimiter>>)

\* lines 67-139: the list lines of format_table_token_efficient
TableLines(table, question, delimiter, max_rows) ==
    LET headers == [k \in DOMAIN table.header |-> Strip(table.header[k], Whitespace)]
        relevant_indices == RelevantIndices(headers, question)
        relevant_headers == [k \in DOMAIN relevant_indices |->
                                headers[relevant_indices[k]]]
        relevant_rows == RelevantRows(table.rows, question, max_rows)
    IN  <<Line(relevant_headers, delimiter)>>
        \o [k \in DOMAIN relevant_rows |->
               Line(FilteredRow(relevant_rows[k], relevant_indices), delimiter)]

(***************************************************************************)
(* serialize_table_for_prompt.  The table has no name, so that its name   *)
(* is "table".                                                            *)
(***************************************************************************)
\* lines 12-25: the list lines of serialize_table_for_prompt
PromptLines(table, row_limit, col_limit) ==
    LET header == Take(table.header, col_limit)
        rows == [k \in DOMAIN Take(table.rows, row_limit) |-> Take(table.rows[k], col_limit)]
        rowNote == IF Len(table.rows) > row_limit
                   THEN << <<".", ".", ".", " ", "(">> \o NatStr(Len(table.rows) - row_limit)
                           \o <<" ", "m", "o", "r", "e", " ", "r", "o", "w", "s", " ", "t", "r", "u", "n", "c", "a", "t", "e", "d", ")">> >>
                   ELSE <<>>
        colNote == IF \E k \in DOMAIN table.rows : Len(table.rows[k]) > col_limit
                   THEN << <<".", ".", ".", " ", "(", "c", "o", "l", "u", "m", "n", "s", " ", "t", "r", "u", "n", "c", "a", "t", "e", "d", " ", "t", "o", " ", "f", "i", "r", "s", "t", " ">>
                           \o NatStr(col_limit) \o <<")">> >>
                   ELSE <<>>
    IN  << <<"T", "a", "b", "l", "e", ":", " ", "t", "a", "b", "l", "e">>,
           <<"H", "e", "a", "d", "e", "r", ":", " ">> \o Join(header, <<" ", "|", " ">>) >>
        \o [k \in DOMAIN rows |-> <<"R", "o", "w", ":", " ">> \o Join(rows[k], <<" ", "|", " ">>)]
        \o rowNote \o colNote

(***************************************************************************)
(* is_answer_correct as one call, as run_evaluation_loop makes it.        *)
(***************************************************************************)
\* lines 78-113: the value returned
is_answer_correct(predicted, expected_answers) ==
    IF NothingToCompare(predicted, expected_answers)
    THEN FALSE
    ELSE LET pred_norm == normalize_answer(predicted)
         IN  IF IsAbstention(pred_norm)
             THEN \E k \in DOMAIN expected_answers :
                      GoldAbstains(normalize_answer(expected_answers[k]))
             ELSE \E k \in DOMAIN expected_answers :
                      GoldOutcome(pred_norm,
                                  normalize_answer(expected_answers[k]))
                          = "return True"

(***************************************************************************)
(* main.py: the global current_table_data and the table tools.  The      *)
(* global is a record: NoTable while it is None, TableData(x) once it    *)
(* holds the str x.                                                       *)
(***************************************************************************)
NoTable == [kind |-> "None"]

TableData(x) == [kind |-> "str", value |-> x]

\* lines 116-117, 139-140: the error value of the tools that return a str
NoTableError ==
    <<"E", "r", "r", "o", "r", ":", " ", "N", "o", " ", "t", "a", "b", "l",
      "e", " ", "d", "a", "t", "a", " ", "a", "v", "a", "i", "l", "a", "b",
      "l", "e", ".", " ", "T", "h", "i", "s", " ", "s", "h", "o", "u", "l",
      "d", " ", "n", "o", "t", " ", "h", "a", "p", "p", "e", "n", ".">>

\* line 145
NoDataRows == <<"T", "a", "b", "l", "e", " ", "h", "a", "s", " ", "n", "o", " ", "d", "a", "t", "a", " ", "r", "o", "w", "s">>

\* current_table_data.strip().split('\n')
DataLines(data) == Split(Strip(data, Whitespace), "\n")

\* [h.strip() for h in line.split('|')]
LineValues(line) ==
    LET vs == Split(line, "|") IN [k \in DOMAIN vs |-> Strip(vs[k], Whitespace)]

\* lines 292-303: get_table_headers_list()
get_table_headers_list(current) ==
    IF current.kind = "None"
    THEN <<>>
    ELSE LineValues(DataLines(current.value)[1])

\* lines 305-313: get_table_row_count()
get_table_row_count(current) ==
    IF current.kind = "None"
    THEN 0
    ELSE LET n == Len(DataLines(current.value)) - 1
         IN  IF n > 0 THEN n ELSE 0

\* repr of a list of str that hold no quote and no backslash
ListRepr(xs) ==
    <<"[">> \o Join([k \in DOMAIN xs |-> <<"'">> \o xs[k] \o <<"'">>],
                    <<",", " ">>) \o <<"]">>

\* the position of the first member of xs equal to x, 0 if there is none
IndexOf(xs, x) ==
    IF \E k \in DOMAIN xs : xs[k] = x
    THEN CHOOSE k \in DOMAIN xs : xs[k] = x /\ \A m \in 1..(k - 1) : xs[m] # x
    ELSE 0

\* lines 126-165: count_column_values_tool(column_name, condition_value)
count_column_values_tool(current, column_name, condition_value) ==
    IF current.kind = "None"
    THEN NoTableError
    ELSE LET data == DataLines(current.value)
             headers == LineValues(data[1])
             column_index == IndexOf(headers, column_name)
             count == Cardinality(
                 {n \in 2..Len(data) :
                     LET values == LineValues(data[n])
                     IN  /\ column_index <= Len(values)
                         /\ values[column_index] = condition_value})
         IN  IF Len(data) < 2
             THEN NoDataRows
             ELSE IF column_index = 0
                  THEN <<"C", "o", "l", "u", "m", "n", " ", "'">> \o column_name
                       \o <<"'", " ", "n", "o", "t", " ", "f", "o", "u", "n", "d", " ", "i", "n", " ", "h", "e", "a", "d", "e", "r", "s", ":", " ">>
                       \o ListRepr(headers)
                  ELSE <<"F", "o", "u", "n", "d", " ">> \o NatStr(count)
                       \o <<" ", "r", "o", "w", "s", " ", "w", "h", "e", "r", "e", " ", "c", "o", "l", "u", "m", "n", " ", "'">>
                       \o column_name \o <<"'", " ", "e", "q", "u", "a", "l", "s", " ", "'">>
                       \o condition_value \o <<"'">>

(***************************************************************************)
(* The state.                                                             *)
(***************************************************************************)
VARIABLES
    s,      \* normalize_token, normalize_answer: the argument of the call
    ret,    \* the same: the value the last call returned, or None
    calls,  \* the same: the number of calls made
    pc,     \* the position in the function that is running
    result, \* what the function returned or raised, or None
    golds,  \* denotation_accuracy: the gold answer lists
    preds,  \* denotation_accuracy: the predicted answer lists
    i,      \* denotation_accuracy: the pairs of zip(golds, preds) consumed
    correct,    \* denotation_accuracy: the local counter
    pred_text,  \* split_prediction: the prediction text
    gold_count, \* split_prediction: the number of gold answers
    predicted,  \* is_answer_correct: the predicted answer
    expected_answers,   \* is_answer_correct: the gold answers
    pred_norm,  \* is_answer_correct: the normalized prediction
    j,          \* is_answer_correct: the gold answers the loop has passed
    table,      \* table_utils: the table to render
    question,   \* format_table_token_efficient: the question, <<>> if none
    delimiter,  \* format_table_token_efficient: the field separator
    max_rows,   \* format_table_token_efficient: the most rows to render
    row_limit,  \* serialize_table_for_prompt: the most rows to render
    col_limit,  \* serialize_table_for_prompt: the most columns to render
    lines,      \* table_utils: the local list of rendered lines
    examples,   \* run_evaluation_loop: the examples to evaluate
    results,    \* run_evaluation_loop: the result records so far
    correct_count,      \* run_evaluation_loop: the local counter
    current_table_data, \* main.py: the global read by the table tools
    predicted_answer,   \* run_evaluation_loop: the answer to score
    incremental_file,   \* results_utils: the content of the incremental file
    save_calls,         \* results_utils: the calls of save_run_results made
    observation,        \* main.py: what the last tool call returned
    f,          \* load_examples_fallback: the lines of the JSONL file
    limit,      \* the loaders: the most examples to load, or None
    splits,     \* load_wtq_splits_with_tables: the examples of the test split
    joined,     \* load_wtq_splits_with_tables: the examples with their tables
    zip_file,   \* dataset_loader: the archive at zip_file_path on the disk
    data_dir,   \* dataset_loader: WikiTableQuestions/data under cache_dir
    downloads,  \* dataset_loader: the downloads started
    extractions,        \* dataset_loader: the extractions started
    ensure_calls        \* dataset_loader: the calls of ensure_wtq_data made

vars == <<s, ret, calls, pc, result, golds, preds, i, correct,
          pred_text, gold_count, predicted, expected_answers, pred_norm, j,
          table, question, delimiter, max_rows, row_limit, col_limit, lines,
          examples, results, correct_count, current_table_data,
          predicted_answer, incremental_file, save_calls, observation,
          f, limit, splits, joined,
          zip_file, data_dir, downloads, extractions, ensure_calls>>

normVars == <<s, ret, calls>>

accVars == <<golds, preds, i, correct>>

splitVars == <<pred_text, gold_count>>

looseVars == <<predicted, expected_answers, pred_norm, j>>

tableVars ==
    <<table, question, delimiter, max_rows, row_limit, col_limit, lines>>

loopVars ==
    <<examples, results, correct_count, current_table_data,
      predicted_answer, incremental_file, save_calls, observation>>

loaderVars == <<f, limit, splits, joined>>

diskVars == <<zip_file, data_dir, downloads, extractions, ensure_calls>>

\* the variables of the orchestration: the loop, the loaders, the disk
orchestrationVars == <<loopVars, loaderVars, diskVars>>

\* no call of normalize_token is under way
IdleNorm == s = None /\ ret = None /\ calls = 0

\* no call of denotation_accuracy is under way
IdleAcc == golds = None /\ preds = None /\ i = 0 /\ correct = None

\* no call of split_prediction is under way
IdleSplit == pred_text = None /\ gold_count = 0

\* no call of is_answer_correct is under way
IdleLoose ==
    predicted = None /\ expected_answers = None /\ pred_norm = None /\ j = 0

\* no function of table_utils is under way
IdleTable ==
    /\ table = None
    /\ question = None
    /\ delimiter = None
    /\ max_rows = 0
    /\ row_limit = 0
    /\ col_limit = 0
    /\ lines = None

\* no evaluation loop is under way
IdleLoop ==
    /\ examples = None
    /\ results = None
    /\ correct_count = 0
    /\ current_table_data = None
    /\ predicted_answer = None
    /\ incremental_file = None
    /\ save_calls = 0
    /\ observation = None

\* no loader is under way
IdleLoader ==
    /\ f = None
    /\ limit = None
    /\ splits = None
    /\ joined = None

\* the disk is left alone
IdleDisk ==
    /\ zip_file = None
    /\ data_dir = None
    /\ downloads = 0
    /\ extractions = 0
    /\ ensure_calls = 0

\* nothing of the orchestration is under way
IdleOrchestration == IdleLoop /\ IdleLoader /\ IdleDisk

\* the characters of the strings given to normalize_token
Alphabet == {" ", "\"", "'", ".", ",", "%", "$", "-", "0", "1", "a", "B"}

\* the strings over a set of characters, up to a length
StringsUpTo(chars, n) == UNION {[1..k -> chars] : k \in 0..n}

Strings == StringsUpTo(Alphabet, MaxLen)

(***************************************************************************)
(* SpecNorm: normalize_token applied to a string, then to its own result. *)
(***************************************************************************)
\* a caller holds some string
InitNorm ==
    /\ s \in Strings
    /\ ret = None
    /\ calls = 0
    /\ pc = "normalize_token"
    /\ result = NoResult
    /\ IdleAcc
    /\ IdleSplit
    /\ IdleLoose
    /\ IdleTable
    /\ IdleOrchestration

\* ret = normalize_token(s)
CallNormalize ==
    /\ pc = "normalize_token"
    /\ calls = 0
    /\ ret' = normalize_token(s)
    /\ calls' = 1
    /\ UNCHANGED <<s, pc, result, accVars, splitVars, looseVars,
                 tableVars, orchestrationVars>>

\* ret = normalize_token(ret): the token is normalized again
CallNormalizeAgain ==
    /\ pc = "normalize_token"
    /\ calls = 1
    /\ s' = ret
    /\ ret' = normalize_token(ret)
    /\ calls' = 2
    /\ UNCHANGED <<pc, result, accVars, splitVars, looseVars,
                 tableVars, orchestrationVars>>

NextNorm == CallNormalize \/ CallNormalizeAgain

SpecNorm == InitNorm /\ [][NextNorm]_vars

(***************************************************************************)
(* SpecAcc: denotation_accuracy(golds, preds), statement by statement.    *)
(***************************************************************************)
\* most examples in one call of denotation_accuracy
MaxExamples == 2

\* the sequences over a set, up to a length
SeqsUpTo(S, n) == UNION {[1..k -> S] : k \in 0..n}

\* the answer lists of one example
AnswerLists ==
    { <<>>,
      << <<"a">> >>,
      << <<"b">> >>,
      << <<"a">>, <<"b", ".">> >>,
      << <<"b">>, <<"A">>, <<"a">> >> }

InitAcc ==
    /\ golds \in SeqsUpTo(AnswerLists, MaxExamples)
    /\ preds \in SeqsUpTo(AnswerLists, MaxExamples)
    /\ i = 0
    /\ correct = None
    /\ pc = "assert"
    /\ result = NoResult
    /\ IdleNorm
    /\ IdleSplit
    /\ IdleLoose
    /\ IdleTable
    /\ IdleOrchestration

\* lines 47-48: the assert, then correct = 0
Enter ==
    /\ pc = "assert"
    /\ IF LengthsAgree(golds, preds)
       THEN /\ pc' = "for"
            /\ correct' = 0
            /\ result' = result
       ELSE /\ pc' = "raised"
            /\ result' = Raised("AssertionError")
            /\ correct' = correct
    /\ UNCHANGED <<golds, preds, i, normVars, splitVars, looseVars,
                 tableVars, orchestrationVars>>

\* lines 49-53: one iteration of the loop over zip(golds, preds)
LoopStep ==
    /\ pc = "for"
    /\ i < ZipLen(golds, preds)
    /\ i' = i + 1
    /\ correct' = IF ExampleCorrect(golds[i + 1], preds[i + 1])
                  THEN correct + 1
                  ELSE correct
    /\ UNCHANGED <<golds, preds, pc, result, normVars, splitVars, looseVars,
                 tableVars, orchestrationVars>>

\* line 54: the loop is over, the accuracy is returned
Return ==
    /\ pc = "for"
    /\ i = ZipLen(golds, preds)
    /\ result' = Accuracy(correct, golds)
    /\ pc' = "done"
    /\ UNCHANGED <<golds, preds, i, correct, normVars, splitVars, looseVars,
                 tableVars, orchestrationVars>>

NextAcc == Enter \/ LoopStep \/ Return

SpecAcc == InitAcc /\ [][NextAcc]_vars

(***************************************************************************)
(* SpecNum: denotation_accuracy([[a]], [[b]]) for two decimal numerals.   *)
(***************************************************************************)
\* a numeral is: an optional "$", an optional "-", integer digits with or
\* without thousands commas, an optional fractional part, an optional "%"
Numerals ==
    [affix : {"", "$", "%"},
     sign  : {<<>>, <<"-">>},
     int   : { <<"0">>, <<"1">>, <<"1","0","0","0">>,
               <<"1",",","0","0","0">> },
     frac  : { <<>>, <<"0">>, <<"5">>, <<"5","0">>,
               <<"0","0","0","0","0","0","1">>,
               <<"0","0","0","0","0","0","1","0">> }]

\* the numeral as written
NumeralText(n) ==
    (IF n.affix = "$" THEN <<"$">> ELSE <<>>)
        \o n.sign \o n.int
        \o (IF n.frac = <<>> THEN <<>> ELSE <<".">> \o n.frac)
        \o (IF n.affix = "%" THEN <<"%">> ELSE <<>>)

\* the number a numeral denotes: its integer digits without commas and
\* leading zeros, its fractional digits without trailing zeros, and its sign
\* (zero has none)
NumeralValue(n) ==
    LET ip == LStrip(Remove(n.int, ","), {"0"})
        fp == RStrip(n.frac, {"0"})
    IN  [neg |-> n.sign = <<"-">> /\ (ip # <<>> \/ fp # <<>>),
         int |-> ip,
         frac |-> fp]

InitNum ==
    /\ \E x \in Numerals, y \in Numerals :
           /\ golds = << <<NumeralText(x)>> >>
           /\ preds = << <<NumeralText(y)>> >>
    /\ i = 0
    /\ correct = None
    /\ pc = "assert"
    /\ result = NoResult
    /\ IdleNorm
    /\ IdleSplit
    /\ IdleLoose
    /\ IdleTable
    /\ IdleOrchestration

SpecNum == InitNum /\ [][NextAcc]_vars

(***************************************************************************)
(* SpecSplit: split_prediction(pred_text, gold_count).                    *)
(***************************************************************************)
\* longest prediction text given to split_prediction
MaxText == 5

\* the characters of the prediction texts
SplitAlphabet == {"a", "1", " ", "|", ","}

\* the numbers of gold answers
GoldCounts == {0, 1, 2, 3}

InitSplit ==
    /\ pred_text \in StringsUpTo(SplitAlphabet, MaxText)
    /\ gold_count \in GoldCounts
    /\ pc = "split_prediction"
    /\ result = NoResult
    /\ IdleNorm
    /\ IdleAcc
    /\ IdleLoose
    /\ IdleTable
    /\ IdleOrchestration

\* lines 32-42: the whole call
CallSplit ==
    /\ pc = "split_prediction"
    /\ result' = Returned(split_prediction(pred_text, gold_count))
    /\ pc' = "done"
    /\ UNCHANGED <<pred_text, gold_count, normVars, accVars, looseVars,
                 tableVars, orchestrationVars>>

NextSplit == CallSplit

SpecSplit == InitSplit /\ [][NextSplit]_vars

(***************************************************************************)
(* SpecLoose: is_answer_correct(predicted, expected_answers), statement   *)
(* by statement.                                                          *)
(***************************************************************************)
\* most gold answers of one call of is_answer_correct
MaxGolds == 2

\* the predicted answers
LoosePredictions ==
    { <<>>,
      <<"I", " ", "d", "o", "n", "'", "t", " ", "k", "n", "o", "w">>,
      <<"D", "o", "n", "'", "t", " ", "k", "n", "o", "w", ".">>,
      <<"u", "n", "k", "n", "o", "w", "n">>,
      <<"P", "a", "r", "i", "s">>,
      <<"4", "2">>,
      <<"4", "2", ".", "0">>,
      <<"1", ",", "0", "0", "0">>,
      <<"0", ".", "0", "0", "0", "0", "0", "0", "5">>,
      <<"-", "5">>,
      <<"U+2212", "5">>,
      <<"4", " ", "2">>,
      <<".">> }

\* the gold answers
LooseGolds ==
    { <<>>,
      <<"u", "n", "k", "n", "o", "w", "n">>,
      <<"I", " ", "d", "o", "n", "'", "t", " ", "k", "n", "o", "w">>,
      <<"P", "a", "r", "i", "s">>,
      <<"p", "a", "r", "i", "s", ".">>,
      <<"4", "2", ".", "0">>,
      <<"1", "0", "0", "0">>,
      <<"0">>,
      <<"0", ".", "0", "0", "0", "0", "0", "1">>,
      <<"5">>,
      <<"-", "5">>,
      <<"4", "1", ".", "9", "9", "9", "9", "9", "9", "5">> }

InitLoose ==
    /\ predicted \in LoosePredictions
    /\ expected_answers \in SeqsUpTo(LooseGolds, MaxGolds)
    /\ pred_norm = None
    /\ j = 0
    /\ pc = "is_answer_correct"
    /\ result = NoResult
    /\ IdleNorm
    /\ IdleAcc
    /\ IdleSplit
    /\ IdleTable
    /\ IdleOrchestration

\* lines 80-87: the empty check, the normalization of the prediction, and
\* the choice of the loop
IacEnter ==
    /\ pc = "is_answer_correct"
    /\ IF NothingToCompare(predicted, expected_answers)
       THEN /\ result' = Returned(FALSE)
            /\ pc' = "done"
            /\ pred_norm' = pred_norm
       ELSE /\ pred_norm' = normalize_answer(predicted)
            /\ pc' = IF IsAbstention(pred_norm') THEN "abstain" ELSE "compare"
            /\ result' = result
    /\ UNCHANGED <<predicted, expected_answers, j, normVars, accVars, splitVars,
                 tableVars, orchestrationVars>>

\* lines 89-92: one gold answer of the abstention loop
IacAbstainStep ==
    /\ pc = "abstain"
    /\ j < Len(expected_answers)
    /\ IF GoldAbstains(normalize_answer(expected_answers[j + 1]))
       THEN /\ result' = Returned(TRUE)
            /\ pc' = "done"
            /\ j' = j
       ELSE /\ j' = j + 1
            /\ UNCHANGED <<result, pc>>
    /\ UNCHANGED <<predicted, expected_answers, pred_norm,
                   normVars, accVars, splitVars, tableVars,
                   orchestrationVars>>

\* line 94: no gold answer abstains
IacAbstainEnd ==
    /\ pc = "abstain"
    /\ j = Len(expected_answers)
    /\ result' = Returned(FALSE)
    /\ pc' = "done"
    /\ UNCHANGED <<looseVars, normVars, accVars, splitVars,
                 tableVars, orchestrationVars>>

\* lines 97-111: one gold answer of the comparison loop
IacCompareStep ==
    /\ pc = "compare"
    /\ j < Len(expected_answers)
    /\ LET outcome ==
               GoldOutcome(pred_norm, normalize_answer(expected_answers[j + 1]))
       IN  IF outcome = "continue"
           THEN /\ j' = j + 1
                /\ UNCHANGED <<result, pc>>
           ELSE /\ result' = Returned(outcome = "return True")
                /\ pc' = "done"
                /\ j' = j
    /\ UNCHANGED <<predicted, expected_answers, pred_norm,
                   normVars, accVars, splitVars, tableVars,
                   orchestrationVars>>

\* line 113: no gold answer matches
IacCompareEnd ==
    /\ pc = "compare"
    /\ j = Len(expected_answers)
    /\ result' = Returned(FALSE)
    /\ pc' = "done"
    /\ UNCHANGED <<looseVars, normVars, accVars, splitVars,
                 tableVars, orchestrationVars>>

NextLoose ==
    \/ IacEnter
    \/ IacAbstainStep
    \/ IacAbstainEnd
    \/ IacCompareStep
    \/ IacCompareEnd

SpecLoose == InitLoose /\ [][NextLoose]_vars

(***************************************************************************)
(* SpecAnswer: normalize_answer(text) applied to a string.  The argument  *)
(* is held in s and the value returned in ret.                            *)
(***************************************************************************)
\* the characters of the strings given to normalize_answer
AnswerAlphabet == {" ", ".", ",", "1", "a", "B", "U+2014"}

\* a caller holds some string
InitAnswer ==
    /\ s \in StringsUpTo(AnswerAlphabet, MaxLen)
    /\ ret = None
    /\ calls = 0
    /\ pc = "normalize_answer"
    /\ result = NoResult
    /\ IdleAcc
    /\ IdleSplit
    /\ IdleLoose
    /\ IdleTable
    /\ IdleOrchestration

\* lines 57-75: ret = normalize_answer(s)
CallNormalizeAnswer ==
    /\ pc = "normalize_answer"
    /\ ret' = normalize_answer(s)
    /\ calls' = 1
    /\ pc' = "done"
    /\ UNCHANGED <<s, result, accVars, splitVars, looseVars,
                 tableVars, orchestrationVars>>

NextAnswer == CallNormalizeAnswer

SpecAnswer == InitAnswer /\ [][NextAnswer]_vars

(***************************************************************************)
(* format_table_token_efficient(table, question, delimiter, max_rows):    *)
(* one call, from three families of arguments.                            *)
(***************************************************************************)
\* lines 67-141: the lines are built and joined by newlines
FormatTable ==
    /\ pc = "format_table_token_efficient"
    /\ lines' = TableLines(table, question, delimiter, max_rows)
    /\ result' = Returned(Join(lines', <<"\n">>))
    /\ pc' = "done"
    /\ UNCHANGED <<table, question, delimiter, max_rows, row_limit, col_limit,
                   normVars, accVars, splitVars, looseVars,
                   orchestrationVars>>

NextTable == FormatTable

\* most columns of a table of SpecCols
MaxCols == 6

\* the headers of the tables of SpecCols
ColHeaders ==
    { <<"C", "i", "t", "y">>,
      <<"C", "a", "p", "a", "c", "i", "t", "y", " ">>,
      <<"Y", "e", "a", "r", "s">> }

\* the questions of SpecCols: none, and two that share words with headers
ColQuestions ==
    { <<>>,
      <<"w", "h", "i", "c", "h", " ", "C", "i", "t", "y">>,
      <<"t", "h", "e", " ", "c", "a", "p", "a", "c", "i", "t", "y", " ",
        "Y", "E", "A", "R", "S">> }

\* SpecCols: tables of up to MaxCols columns and one row, whose k-th cell
\* is the numeral of k
InitCols ==
    /\ \E header \in SeqsUpTo(ColHeaders, MaxCols) :
           table = [header |-> header,
                    rows |-> << [k \in DOMAIN header |-> NatStr(k)] >>]
    /\ question \in ColQuestions
    /\ delimiter = "|"
    /\ max_rows = 1
    /\ row_limit = 0
    /\ col_limit = 0
    /\ lines = None
    /\ pc = "format_table_token_efficient"
    /\ result = NoResult
    /\ IdleNorm
    /\ IdleAcc
    /\ IdleSplit
    /\ IdleLoose
    /\ IdleOrchestration

SpecCols == InitCols /\ [][NextTable]_vars

\* most rows of a table of SpecRows
MaxTableRows == 11

\* the rows of the tables of SpecRows: one holds the word "x" of the
\* question, in upper case; the other holds a newline
RowPool ==
    { <<<<"X", " ", "y">>, <<"1">>>>,
      <<<<"z", "\n", "w">>, <<"2">>>> }

\* the questions of SpecRows
RowQuestions ==
    { <<>>,
      <<"x", " ", "q">> }

\* the values of max_rows of SpecRows
RowLimits == {0, 1, MinRelevantRows}

\* SpecRows: tables of two columns and up to MaxTableRows rows
InitRows ==
    /\ \E rows \in SeqsUpTo(RowPool, MaxTableRows) :
           table = [header |-> <<<<"k">>, <<"v">>>>, rows |-> rows]
    /\ question \in RowQuestions
    /\ delimiter = "|"
    /\ max_rows \in RowLimits
    /\ row_limit = 0
    /\ col_limit = 0
    /\ lines = None
    /\ pc = "format_table_token_efficient"
    /\ result = NoResult
    /\ IdleNorm
    /\ IdleAcc
    /\ IdleSplit
    /\ IdleLoose
    /\ IdleOrchestration

SpecRows == InitRows /\ [][NextTable]_vars

\* most cells of a row of SpecCells, most rows and columns of SpecSerialize
MaxSide == 3

\* the cells of the tables of SpecCells
CellPool ==
    { <<"x">>,
      <<"1", "/", "2", "/", "2", "0", "2", "0">>,
      <<"a", "/", "b", "/", "c", "d", "e", "f">>,
      <<"1", "/", "2", "/", "2", "0">>,
      <<"a", " ", "b">>,
      <<"a", "|", "b", ",">> }

\* the delimiters of SpecCells
Delimiters == {"|", " ", "-"}

\* SpecCells: tables of two columns and one row of up to MaxSide cells
InitCells ==
    /\ \E row \in SeqsUpTo(CellPool, MaxSide) :
           table = [header |-> <<<<"a">>, <<"b">>>>, rows |-> <<row>>]
    /\ question = <<>>
    /\ delimiter \in Delimiters
    /\ max_rows = 5
    /\ row_limit = 0
    /\ col_limit = 0
    /\ lines = None
    /\ pc = "format_table_token_efficient"
    /\ result = NoResult
    /\ IdleNorm
    /\ IdleAcc
    /\ IdleSplit
    /\ IdleLoose
    /\ IdleOrchestration

SpecCells == InitCells /\ [][NextTable]_vars

(***************************************************************************)
(* SpecSerialize: serialize_table_for_prompt(table, row_limit, col_limit), *)
(* one call.                                                              *)
(***************************************************************************)
\* a row of n cells
RowOf(n) == [k \in 1..n |-> <<"c">>]

\* tables of up to MaxSide columns and up to MaxSide rows of up to MaxSide
\* cells, and limits up to MaxSide
InitSerialize ==
    /\ \E w \in 0..MaxSide :
       \E rows \in SeqsUpTo({RowOf(n) : n \in 0..MaxSide}, MaxSide) :
           table = [header |-> [k \in 1..w |-> <<"h">>], rows |-> rows]
    /\ row_limit \in 0..MaxSide
    /\ col_limit \in 0..MaxSide
    /\ question = None
    /\ delimiter = None
    /\ max_rows = 0
    /\ lines = None
    /\ pc = "serialize_table_for_prompt"
    /\ result = NoResult
    /\ IdleNorm
    /\ IdleAcc
    /\ IdleSplit
    /\ IdleLoose
    /\ IdleOrchestration

\* lines 12-27: the lines are built and joined by newlines
Serialize ==
    /\ pc = "serialize_table_for_prompt"
    /\ lines' = PromptLines(table, row_limit, col_limit)
    /\ result' = Returned(Join(lines', <<"\n">>))
    /\ pc' = "done"
    /\ UNCHANGED <<table, question, delimiter, max_rows, row_limit, col_limit,
                   normVars, accVars, splitVars, looseVars,
                   orchestrationVars>>

NextSerialize == Serialize

SpecSerialize == InitSerialize /\ [][NextSerialize]_vars

(***************************************************************************)
(* SpecLoop: run_evaluation_loop(agent, examples, config), statement by   *)
(* statement.  The agent and the file system are the environment: a call  *)
(* of the agent returns an answer or raises, and may call a table tool    *)
(* first; a call of save_run_results writes the file or raises.  An       *)
(* example holds its table by reference: its "table" names a table of     *)
(* LoopTable.  i is the loop variable.                                    *)
(***************************************************************************)
\* line 53: the most characters of a formatted table given to the agent
MaxTableChars == 10000

\* line 46: max_rows=500
LoopMaxRows == 500

\* most examples of a run
MaxLoopExamples == 2

\* the tables the examples refer to: two small ones, and one whose
\* formatted text is longer than MaxTableChars
LoopTable(name) ==
    CASE name = "small" ->
            [header |-> << <<"h">> >>, rows |-> << << <<"x">> >>, << <<"y">> >> >>]
      [] name = "other" ->
            [header |-> << <<"h">> >>, rows |-> << << <<"z">> >> >>]
      [] name = "big" ->
            [header |-> << <<"h">> >>, rows |-> << << Rep("x", MaxTableChars) >> >>]

\* the examples of a run
ExamplePool ==
    { [table |-> "small", question |-> <<"q", "1">>,
       answers |-> << <<"x">> >>],
      [table |-> "other", question |-> <<"q", "2">>,
       answers |-> << <<"E", "r", "r", "o", "r">> >>],
      [table |-> "big", question |-> <<"q", "3">>,
       answers |-> << <<"x">> >>] }

\* result.answer of a call of the agent that returns
AgentAnswers == { <<" ", "x", " ">> }

\* line 89: the sentinel prediction
ERROR == <<"E", "R", "R", "O", "R">>

\* line 58
SKIPPED == <<"S", "K", "I", "P", "P", "E", "D", " ", "(", "t", "a", "b", "l", "e",
      " ", "t", "o", "o", " ", "l", "a", "r", "g", "e", ")">>

NoObservation == [tool |-> "none"]

NoFile == [kind |-> "absent"]

\* the formatted text of each table, computed once
FormattedTables ==
    [name \in {"small", "other", "big"} |->
        Join(TableLines(LoopTable(name), <<>>, "|", LoopMaxRows), <<"\n">>)]

\* line 46: format_table_token_efficient(table, question=None, max_rows=500)
FormattedTable(example) == FormattedTables[example.table]

\* a setter that keeps the table that is already loaded
set_current_table_once(current, data) ==
    IF current.kind = "None" THEN TableData(data) ELSE current

\* lines 105-108: the value of the global after set_current_table(data)
set_current_table(current, data) == TableData(data)

\* a counter that counts every answered example
CountedAlways(count, is_correct) == count + 1

\* lines 94-95: correct_count after an example is scored
Counted(count, is_correct) == IF is_correct THEN count + 1 ELSE count

\* a loop of some examples is about to start: lines 35-36 are done
InitLoop ==
    /\ examples \in SeqsUpTo(ExamplePool, MaxLoopExamples)
    /\ results = <<>>
    /\ correct_count = 0
    /\ i = 0
    /\ current_table_data = NoTable
    /\ predicted_answer = None
    /\ incremental_file = NoFile
    /\ save_calls = 0
    /\ observation = NoObservation
    /\ pc = "for"
    /\ result = NoResult
    /\ golds = None
    /\ preds = None
    /\ correct = None
    /\ IdleNorm
    /\ IdleSplit
    /\ IdleLoose
    /\ IdleTable
    /\ IdleLoader
    /\ IdleDisk

\* the variables the loop never touches
loopRest ==
    <<golds, preds, correct, normVars, splitVars, looseVars, tableVars,
      loaderVars, diskVars>>

\* lines 38-74 and 136: the next example is taken and its table formatted;
\* an example whose table is too large is recorded as skipped and the loop
\* continues, otherwise the table is made the current one; with no example
\* left, results is returned.  No tool has been called yet for the example.
LoopFor ==
    /\ pc = "for"
    /\ IF i < Len(examples)
       THEN LET example == examples[i + 1]
                table_data == FormattedTable(example)
            IN  /\ i' = i + 1
                /\ result' = result
                /\ IF Len(table_data) > MaxTableChars
                   THEN /\ results' = Append(results,
                                             [question |-> example.question,
                                              expected |-> example.answers,
                                              predicted |-> SKIPPED,
                                              correct |-> FALSE])
                        /\ pc' = "for"
                        /\ current_table_data' = current_table_data
                   ELSE /\ current_table_data' =
                               set_current_table(current_table_data, table_data)
                        /\ pc' = "agent"
                        /\ results' = results
       ELSE /\ result' = Returned(results)
            /\ pc' = "done"
            /\ UNCHANGED <<i, results, current_table_data>>
    /\ observation' = NoObservation
    /\ UNCHANGED <<examples, correct_count, predicted_answer,
                   incremental_file, save_calls, loopRest>>

\* a table tool is called, by the agent while it works on an example, or
\* by anyone before the loop has loaded a table
ToolCall ==
    /\ pc = "agent" \/ (pc = "for" /\ i = 0)
    /\ \/ observation' =
              [tool |-> "get_table_headers_list",
               value |-> get_table_headers_list(current_table_data)]
       \/ observation' =
              [tool |-> "get_table_row_count",
               value |-> get_table_row_count(current_table_data)]
       \/ observation' =
              [tool |-> "count_column_values_tool",
               value |-> count_column_values_tool(current_table_data,
                                                  <<"h">>, <<"x">>)]
    /\ UNCHANGED <<examples, i, results, correct_count,
                   current_table_data, predicted_answer, incremental_file,
                   save_calls, pc, result, loopRest>>

\* lines 78-90: the agent returns an answer, which is stripped, or raises,
\* and the prediction is the sentinel
AgentCall ==
    /\ pc = "agent"
    /\ \/ \E answer \in AgentAnswers :
              predicted_answer' = Strip(answer, Whitespace)
       \/ predicted_answer' = ERROR
    /\ observation' = NoObservation
    /\ pc' = "score"
    /\ UNCHANGED <<examples, i, results, correct_count,
                   current_table_data, incremental_file, save_calls, result,
                   loopRest>>

\* lines 93-117: the answer is scored, counted and recorded
LoopScore ==
    /\ pc = "score"
    /\ LET is_correct ==
               is_answer_correct(predicted_answer, examples[i].answers)
       IN  /\ correct_count' = Counted(correct_count, is_correct)
           /\ results' = Append(results,
                                [question |-> examples[i].question,
                                 expected |-> examples[i].answers,
                                 predicted |-> predicted_answer,
                                 correct |-> is_correct])
    /\ pc' = "save"
    /\ UNCHANGED <<examples, i, current_table_data,
                   predicted_answer, incremental_file, save_calls,
                   observation, result, loopRest>>

\* lines 120-125: save_run_results(..., is_incremental=True) is called; it
\* overwrites the incremental file, or raises and the loop goes on
LoopSave ==
    /\ pc = "save"
    /\ save_calls' = save_calls + 1
    /\ \/ incremental_file' = [kind |-> "file",
                               total_questions |-> i,
                               correct_count |-> correct_count,
                               detailed_results |-> results]
       \/ incremental_file' = incremental_file
    /\ pc' = "for"
    /\ UNCHANGED <<examples, i, results, correct_count,
                   current_table_data, predicted_answer, observation, result,
                   loopRest>>

NextLoop ==
    \/ LoopFor
    \/ ToolCall
    \/ AgentCall
    \/ LoopScore
    \/ LoopSave

SpecLoop == InitLoop /\ [][NextLoop]_vars

(***************************************************************************)
(* SpecRound: a table is formatted with max_rows rows at most and set as  *)
(* the current table, then read back by the tools that give the headers   *)
(* and the number of rows, as lines 46 and 66-73 of run_evaluation_loop   *)
(* do.                                                                     *)
(***************************************************************************)
\* most columns, most rows and the largest max_rows of SpecRound
MaxRoundCols == 2

MaxRoundRows == 2

MaxRoundLimit == 2

\* the headers and the cells of the tables of SpecRound
RoundHeaders == { <<>>, <<"a">>, <<" ", "b">> }

RoundCells == { <<>>, <<"x">> }

InitRound ==
    /\ \E header \in SeqsUpTo(RoundHeaders, MaxRoundCols) :
       \E rows \in SeqsUpTo(SeqsUpTo(RoundCells, MaxRoundCols), MaxRoundRows) :
           table = [header |-> header, rows |-> rows]
    /\ question = <<>>
    /\ delimiter = "|"
    /\ max_rows \in 0..MaxRoundLimit
    /\ row_limit = 0
    /\ col_limit = 0
    /\ lines = None
    /\ examples = None
    /\ results = None
    /\ correct_count = 0
    /\ current_table_data = NoTable
    /\ predicted_answer = None
    /\ incremental_file = None
    /\ save_calls = 0
    /\ observation = NoObservation
    /\ pc = "format"
    /\ result = NoResult
    /\ IdleNorm
    /\ IdleAcc
    /\ IdleSplit
    /\ IdleLoose
    /\ IdleLoader
    /\ IdleDisk

\* the variables SpecRound never touches
roundRest ==
    <<table, question, delimiter, max_rows, row_limit, col_limit, examples,
      results, correct_count, predicted_answer, incremental_file, save_calls,
      result, normVars, accVars, splitVars, looseVars, loaderVars, diskVars>>

\* set_current_table(format_table_token_efficient(table, None, "|", max_rows))
SetFormatted ==
    /\ pc = "format"
    /\ lines' = TableLines(table, question, delimiter, max_rows)
    /\ current_table_data' =
           set_current_table(current_table_data, Join(lines', <<"\n">>))
    /\ pc' = "inspect"
    /\ UNCHANGED <<observation, roundRest>>

\* runner_utils.py lines 71-73: get_table_headers_list() and
\* get_table_row_count()
Inspect ==
    /\ pc = "inspect"
    /\ observation' =
           [tool |-> "inspect",
            headers |-> get_table_headers_list(current_table_data),
            total_rows |-> get_table_row_count(current_table_data)]
    /\ pc' = "done"
    /\ UNCHANGED <<lines, current_table_data, roundRest>>

NextRound ==
    \/ SetFormatted
    \/ Inspect

SpecRound == InitRound /\ [][NextRound]_vars

(***************************************************************************)
(* SpecFallback: load_examples_fallback(wtq_dir, examples_jsonl, limit,   *)
(* col_limit), one call.  A line of the file is text of whitespace only,  *)
(* or the text of a JSON object, which stands here as the object that     *)
(* json.loads makes of it; every object carries its table.                *)
(***************************************************************************)
\* most lines of the file, and the largest limit
MaxFileLines == 3

MaxLimit == 2

NoLimit == [kind |-> "None"]

IntLimit(n) == [kind |-> "int", value |-> n]

\* the limits given to the loaders
Limits == {NoLimit} \cup {IntLimit(n) : n \in (0 - 1)..MaxLimit}

BlankLine(text) == [kind |-> "text", value |-> text]

JsonLine(object) == [kind |-> "json", value |-> object]

\* the value of j.get("answers") or j.get("answer")
AnswersList(xs) == [kind |-> "list", value |-> xs]

AnswersStr(x) == [kind |-> "str", value |-> x]

NoAnswers == [kind |-> "None"]

\* the lines a file is made of
FileLinePool ==
    LET inline == [header |-> << <<"h">> >>, rows |-> << << <<"x">> >> >>,
                   name |-> <<"t">>]
    IN  { BlankLine(<<"\n">>),
          BlankLine(<<" ", "\n">>),
          JsonLine([id |-> 1, question |-> <<"q", "1">>,
                    answers |-> AnswersList(<< <<"x">> >>), table |-> inline]),
          JsonLine([id |-> 2, question |-> <<"q", "2">>,
                    answers |-> AnswersStr(<<"x">>), table |-> inline]),
          JsonLine([id |-> 3, question |-> <<"q", "3">>,
                    answers |-> NoAnswers, table |-> inline]) }

FileOf(file_lines) == [kind |-> "file", lines |-> file_lines]

\* lines 108-112: a str is wrapped in a list, None becomes the empty list
AnswersOf(answers) ==
    CASE answers.kind = "str" -> <<answers.value>>
      [] answers.kind = "None" -> <<>>
      [] answers.kind = "list" -> answers.value

\* lines 104-131: the example made of the object of a line
ExampleOf(object) ==
    [id |-> object.id,
     question |-> object.question,
     answers |-> AnswersOf(object.answers),
     table |-> [header |-> object.table.header,
                rows |-> object.table.rows,
                name |-> object.table.name]]

\* line 134: limit is not None and len(examples) >= int(limit)
LimitReached(count, lim) == lim.kind # "None" /\ count >= lim.value

InitFallback ==
    /\ f \in {NoFile} \cup {FileOf(ls) : ls \in SeqsUpTo(FileLinePool, MaxFileLines)}
    /\ limit \in Limits
    /\ splits = None
    /\ joined = None
    /\ examples = None
    /\ i = 0
    /\ pc = "load_examples_fallback"
    /\ result = NoResult
    /\ results = None
    /\ correct_count = 0
    /\ current_table_data = None
    /\ predicted_answer = None
    /\ incremental_file = None
    /\ save_calls = 0
    /\ observation = None
    /\ golds = None
    /\ preds = None
    /\ correct = None
    /\ IdleNorm
    /\ IdleSplit
    /\ IdleLoose
    /\ IdleTable
    /\ IdleDisk

\* the variables load_examples_fallback never touches
fallbackRest ==
    <<f, limit, splits, joined, results, correct_count, current_table_data,
      predicted_answer, incremental_file, save_calls, observation, golds,
      preds, correct, normVars, splitVars, looseVars, tableVars, diskVars>>

\* lines 86-96: no source file raises, otherwise examples is the empty list
OpenSource ==
    /\ pc = "load_examples_fallback"
    /\ IF f.kind = "absent"
       THEN /\ result' = Raised("FileNotFoundError")
            /\ pc' = "done"
            /\ examples' = examples
       ELSE /\ examples' = <<>>
            /\ pc' = "for"
            /\ result' = result
    /\ UNCHANGED <<i, fallbackRest>>

\* lines 99-135: one line is read; a blank one is passed over, another one
\* gives an example, which is appended, and then the limit is tested and
\* ends the loop and the call
ReadLine ==
    /\ pc = "for"
    /\ i < Len(f.lines)
    /\ i' = i + 1
    /\ LET line == f.lines[i + 1]
       IN  IF line.kind = "text" /\ Strip(line.value, Whitespace) = <<>>
           THEN UNCHANGED <<examples, pc, result>>
           ELSE /\ examples' = Append(examples, ExampleOf(line.value))
                /\ IF LimitReached(Len(examples'), limit)
                   THEN pc' = "done" /\ result' = Returned(examples')
                   ELSE UNCHANGED <<pc, result>>
    /\ UNCHANGED fallbackRest

\* lines 99 and 137: the file is at its end, examples is returned
EndOfFile ==
    /\ pc = "for"
    /\ i = Len(f.lines)
    /\ result' = Returned(examples)
    /\ pc' = "done"
    /\ UNCHANGED <<examples, i, fallbackRest>>

NextFallback ==
    \/ OpenSource
    \/ ReadLine
    \/ EndOfFile

SpecFallback == InitFallback /\ [][NextFallback]_vars

(***************************************************************************)
(* SpecEnsure: calls of ensure_wtq_data() with its default arguments, one *)
(* after the other.  The disk holds the archive at zip_file_path (absent, *)
(* partial or complete) and the directory WikiTableQuestions/data under   *)
(* cache_dir (absent or present); the complete archive holds that         *)
(* directory.  A partial archive is what an interrupted download leaves.  *)
(***************************************************************************)
\* most calls of ensure_wtq_data
MaxEnsureCalls == 6

\* line 83: cache_dir / "WikiTableQuestions" / "data"
DataDirPath ==
    <<".", "c", "a", "c", "h", "e", "/", "W", "i", "k", "i", "T", "a", "b",
      "l", "e", "Q", "u", "e", "s", "t", "i", "o", "n", "s", "/", "d", "a",
      "t", "a">>

\* a test that never finds the extracted data
DataNeverExists(dir) == FALSE

\* line 71: existing_data_dir.exists()
DataExists(dir) == dir = "present"

\* lines 36 and 75: zip_file_path.exists()
ZipExists(zip) == zip # "absent"

InitEnsure ==
    /\ zip_file \in {"absent", "complete"}
    /\ data_dir \in {"absent", "present"}
    /\ downloads = 0
    /\ extractions = 0
    /\ ensure_calls = 0
    /\ pc = "idle"
    /\ result = NoResult
    /\ IdleNorm
    /\ IdleAcc
    /\ IdleSplit
    /\ IdleLoose
    /\ IdleTable
    /\ IdleLoop
    /\ IdleLoader

\* the variables ensure_wtq_data never touches
ensureRest ==
    <<normVars, accVars, splitVars, looseVars, tableVars, loopVars,
      loaderVars>>

\* lines 49-68: ensure_wtq_data() is called
EnsureCall ==
    /\ pc = "idle"
    /\ ensure_calls < MaxEnsureCalls
    /\ ensure_calls' = ensure_calls + 1
    /\ result' = NoResult
    /\ pc' = "ensure"
    /\ UNCHANGED <<zip_file, data_dir, downloads, extractions, ensureRest>>

\* lines 70-72: the extracted data is returned if it is there
CheckData ==
    /\ pc = "ensure"
    /\ IF DataExists(data_dir)
       THEN result' = Returned(DataDirPath) /\ pc' = "idle"
       ELSE result' = result /\ pc' = "check_zip"
    /\ UNCHANGED <<zip_file, data_dir, downloads, extractions, ensure_calls,
                   ensureRest>>

\* lines 75-76: download_wtq_zip() is called if there is no archive
CheckZip ==
    /\ pc = "check_zip"
    /\ pc' = IF ~ZipExists(zip_file) THEN "download_wtq_zip" ELSE "extract"
    /\ UNCHANGED <<zip_file, data_dir, downloads, extractions, ensure_calls,
                   result, ensureRest>>

\* lines 18-46: download_wtq_zip(): an archive that is there is returned;
\* otherwise the request fails before the file is opened, or the file is
\* opened at zip_file_path and the stream breaks while it is written, or
\* all of it is written
Download ==
    /\ pc = "download_wtq_zip"
    /\ IF ZipExists(zip_file)
       THEN /\ pc' = "extract"
            /\ UNCHANGED <<zip_file, downloads, result>>
       ELSE /\ downloads' = downloads + 1
            /\ \/ /\ zip_file' = zip_file
                  /\ result' = Raised("RequestException")
                  /\ pc' = "idle"
               \/ /\ zip_file' = "partial"
                  /\ result' = Raised("RequestException")
                  /\ pc' = "idle"
               \/ /\ zip_file' = "complete"
                  /\ result' = result
                  /\ pc' = "extract"
    /\ UNCHANGED <<data_dir, extractions, ensure_calls, ensureRest>>

\* lines 79-84: the archive is opened and extracted into cache_dir, and the
\* data directory is returned; an archive that is not whole raises
Extract ==
    /\ pc = "extract"
    /\ extractions' = extractions + 1
    /\ IF zip_file = "complete"
       THEN /\ data_dir' = "present"
            /\ result' = Returned(DataDirPath)
       ELSE /\ data_dir' = data_dir
            /\ result' = Raised("BadZipFile")
    /\ pc' = "idle"
    /\ UNCHANGED <<zip_file, downloads, ensure_calls, ensureRest>>

NextEnsure ==
    \/ EnsureCall
    \/ CheckData
    \/ CheckZip
    \/ Download
    \/ Extract

SpecEnsure == InitEnsure /\ [][NextEnsure]_vars

(***************************************************************************)
(* SpecJoin: load_wtq_test_questions_with_tables(data_dir, limit), one    *)
(* call, and then format_table_token_efficient on the table of a loaded   *)
(* example.  f is what load_wtq_split reads from the file of the test     *)
(* split; a missing file gives the empty split.  Only the test split is   *)
(* returned, and the other splits are left out.                           *)
(***************************************************************************)
\* most examples of the test split
MaxSplit == 3

\* the files of the tables under root_dir: their name with the extension
\* normalized and their lines, or no file
TableFile(table_name) ==
    CASE table_name = "csv/1.csv" ->
            [kind |-> "file", normalized |-> "csv/1.tsv",
             lines |-> << <<"h", "\t", " ", "g", "\n">>,
                          <<"x", "\t", "y", "\n">> >>]
      [] table_name = "csv/2.csv" ->
            [kind |-> "file", normalized |-> "csv/2.tsv", lines |-> <<>>]
      [] table_name = "csv/3.csv" -> NoFile

\* the examples that load_wtq_split gives
SplitPool ==
    { [id |-> 1, table_name |-> "csv/1.csv"],
      [id |-> 2, table_name |-> "csv/2.csv"],
      [id |-> 3, table_name |-> "csv/3.csv"] }

\* splits_loader.py lines 27-29: extract_table_content(line)
extract_table_content(line) ==
    LET vals == Split(Strip(line, {"\n"}), "\t")
    IN  [k \in DOMAIN vals |-> Strip(Replace(vals[k], "\n", " "), Whitespace)]

\* splits_loader.py lines 17-73: read_table_from_file(table_name, root_dir)
read_table_from_file(table_name) ==
    LET file == TableFile(table_name)
    IN  IF file.kind = "absent"
        THEN Raised("FileNotFoundError")
        ELSE Returned(
               [header |-> IF file.lines = <<>>
                           THEN <<>>
                           ELSE extract_table_content(file.lines[1]),
                rows |-> [k \in 1..(Len(file.lines) - 1) |->
                             extract_table_content(file.lines[k + 1])],
                name |-> file.normalized])

\* lines 185-188: the table of an example, or a record of the error
TableOrError(table_name) ==
    LET read == read_table_from_file(table_name)
    IN  IF read.kind = "raise"
        THEN [error |-> <<"Failed to load table: ", read.value>>,
              name |-> table_name]
        ELSE read.value

\* a cut at the limit as it is given
LimitedUnclamped(xs, lim) ==
    IF lim.kind = "None" THEN xs ELSE Take(xs, lim.value)

\* lines 232 and 176-179: splits['test'][:max(0, limit)], for a limit that
\* is not None
Limited(xs, lim) ==
    IF lim.kind = "None"
    THEN xs
    ELSE Take(xs, IF lim.value > 0 THEN lim.value ELSE 0)

\* table.get(key, [])
TableGet(tbl, key) == IF key \in DOMAIN tbl THEN tbl[key] ELSE <<>>

\* table_utils.py lines 67-141: format_table_token_efficient(table, ...),
\* for a table that may lack its header or its rows
format_table_token_efficient(tbl, q, delim, rows_max) ==
    Join(TableLines([header |-> TableGet(tbl, "header"),
                     rows |-> TableGet(tbl, "rows")], q, delim, rows_max),
         <<"\n">>)

InitJoin ==
    /\ f \in {NoFile} \cup {FileOf(xs) : xs \in SeqsUpTo(SplitPool, MaxSplit)}
    /\ limit \in Limits
    /\ splits = None
    /\ joined = None
    /\ i = 0
    /\ pc = "load_wtq_test_questions_with_tables"
    /\ result = NoResult
    /\ golds = None
    /\ preds = None
    /\ correct = None
    /\ IdleNorm
    /\ IdleSplit
    /\ IdleLoose
    /\ IdleTable
    /\ IdleLoop
    /\ IdleDisk

\* the variables the loader of the test split never touches
joinRest ==
    <<f, limit, golds, preds, correct, question, delimiter, max_rows,
      row_limit, col_limit, normVars, splitVars, looseVars, loopVars,
      diskVars>>

\* lines 232-233, 166-179: the split is loaded and cut at the limit
ApplyLimit ==
    /\ pc = "load_wtq_test_questions_with_tables"
    /\ splits' = [test |-> Limited(IF f.kind = "absent" THEN <<>> ELSE f.lines,
                                   limit)]
    /\ joined' = <<>>
    /\ pc' = "join"
    /\ UNCHANGED <<i, result, table, lines, joinRest>>

\* lines 184-190: the table of the next example is read and joined to it
JoinOne ==
    /\ pc = "join"
    /\ i < Len(splits.test)
    /\ i' = i + 1
    /\ LET ex == splits.test[i + 1]
       IN  joined' = Append(joined,
                            [id |-> ex.id,
                             table_name |-> ex.table_name,
                             table |-> TableOrError(ex.table_name)])
    /\ UNCHANGED <<splits, pc, result, table, lines, joinRest>>

\* lines 191-193 and 234: the joined test split is returned
ReturnTest ==
    /\ pc = "join"
    /\ i = Len(splits.test)
    /\ result' = Returned(joined)
    /\ pc' = "done"
    /\ UNCHANGED <<i, splits, joined, table, lines, joinRest>>

\* runner_utils.py line 46: the table of a loaded example is formatted
FormatLoaded ==
    /\ pc = "done"
    /\ \E k \in DOMAIN joined :
           /\ table' = joined[k].table
           /\ lines' = Split(format_table_token_efficient(table', <<>>, "|",
                                                         LoopMaxRows), "\n")
    /\ pc' = "formatted"
    /\ UNCHANGED <<i, splits, joined, result, joinRest>>

NextJoin ==
    \/ ApplyLimit
    \/ JoinOne
    \/ ReturnTest
    \/ FormatLoaded

SpecJoin == InitJoin /\ [][NextJoin]_vars

(***************************************************************************)
(* Properties of normalize_token.                                         *)
(***************************************************************************)
\* C1: normalize_token is idempotent: once a token has been returned,
\* normalizing that token again returns it unchanged.
C1_Idempotent == calls = 2 => ret = s

\* the string of steps 1-4 of the specification with a trailing "%" and a
\* leading "$" removed
StepsOneToSix(str) == DropDollar(DropPercent(Remove(NormS0(str), ",")))

\* C4 as stated: when the cleaned string is no decimal number, the token is
\* the string of steps 1-4 with "%" and "$" removed, and holds no comma.
C4_FallbackIsCleaned ==
    (calls >= 1 /\ ~IsDecimal(StepsOneToSix(s)))
        => (ret = StepsOneToSix(s) /\ ~HasChar(ret, ","))

\* C4 amended: when the cleaned string is no decimal number, the token is
\* the string of steps 1-3 (quotes stripped, lowercased, whitespace
\* collapsed, surrounding " .," stripped): inner commas, a trailing "%" and
\* a leading "$" are kept.
C4_FallbackIsS0 ==
    (calls >= 1 /\ ~IsDecimal(StepsOneToSix(s)))
        => ret = StripPunctuation(CollapseWhitespace(StripQuotesLower(s)))

\* a non-number whose token keeps an inner comma and its "$"
C4_Witness ==
    /\ calls = 1
    /\ s = <<"$", ",", "a">>
    /\ ret = <<"$", ",", "a">>

\* C22: a leading "." is kept for the decimal parse: the token of "." followed
\* by digits is the token of the same string with "0" in front, so that
\* normalize_token(".1") equals normalize_token("0.1").
C22_LeadingPeriodKept ==
    (/\ calls >= 1
     /\ Len(s) >= 2
     /\ s[1] = "."
     /\ \A k \in 2..Len(s) : s[k] \in Digits)
        => ret = normalize_token(<<"0">> \o s)

(***************************************************************************)
(* Properties of denotation_accuracy.                                     *)
(***************************************************************************)
\* the tokens of xs are among the tokens of ys
TokensWithin(xs, ys) ==
    \A k \in DOMAIN xs : \E m \in DOMAIN ys :
        normalize_token(xs[k]) = normalize_token(ys[m])

\* the examples the specification counts as correct: same members both ways
CorrectExamples ==
    {k \in 1..Len(golds) :
        TokensWithin(golds[k], preds[k]) /\ TokensWithin(preds[k], golds[k])}

\* C2: for equal-length inputs the value returned is the number of examples
\* whose gold and predicted token sets have the same members, divided by the
\* number of examples.
C2_AccuracyIsSetEquality ==
    (pc = "done" /\ golds # <<>>)
        => result = Returned([num |-> Cardinality(CorrectExamples),
                              den |-> Len(golds)])

\* two examples scored: one with equal sets, one where the prediction holds
\* only part of the gold set
C2_Witness ==
    /\ pc = "done"
    /\ golds = << << <<"a">>, <<"b", ".">> >>, << <<"a">>, <<"b", ".">> >> >>
    /\ preds = << << <<"b">>, <<"A">>, <<"a">> >>, << <<"a">> >> >>
    /\ result = Returned([num |-> 1, den |-> 2])

\* the token is canonical: no comma, no trailing fractional zero, no
\* trailing decimal point
CanonicalToken(tok) ==
    /\ ~HasChar(tok, ",")
    /\ ~(HasChar(tok, ".") /\ EndsWith(tok, "0"))
    /\ ~EndsWith(tok, ".")

\* C3: two numerals that denote the same number get the same canonical
\* token, so that denotation_accuracy([[a]], [[b]]) is 1.0.
C3_SameNumberSameToken ==
    pc = "done" =>
        \A x \in Numerals : golds[1][1] = NumeralText(x) =>
            \A y \in Numerals :
                (preds[1][1] = NumeralText(y)
                    /\ NumeralValue(x) = NumeralValue(y))
                => /\ result = Returned(One)
                   /\ CanonicalToken(normalize_token(golds[1][1]))

\* C6: with len(golds) # len(preds) the call raises at the assert: nothing
\* is scored and no accuracy is returned.
C6_MismatchRaises ==
    Len(golds) # Len(preds)
        => /\ pc \in {"assert", "raised"}
           /\ i = 0
           /\ result = (IF pc = "raised"
                        THEN Raised("AssertionError")
                        ELSE NoResult)

\* a call with one gold list and two predicted lists has raised
C6_Witness ==
    /\ pc = "raised"
    /\ result = Raised("AssertionError")
    /\ Len(golds) = 1
    /\ Len(preds) = 2

\* C7: the counter stays within 0..number of examples handled, the value
\* returned is a fraction in [0, 1], and for empty inputs it is 0.0, with
\* no division by zero.
C7_AccuracyInUnitInterval ==
    /\ pc \in {"for", "done"} => (0 <= correct /\ correct <= i)
    /\ pc = "done" =>
          /\ result.kind = "return"
          /\ result.value.den > 0
          /\ 0 <= result.value.num
          /\ result.value.num <= result.value.den
          /\ (golds = <<>> => result = Returned(Zero))

\* denotation_accuracy([], []) has returned 0.0
C7_Witness ==
    pc = "done" /\ golds = <<>> /\ preds = <<>> /\ result = Returned(Zero)

\* the lists with the same members as xs, in any order and with elements
\* repeated, up to one element longer than xs
Rearrangements(xs) ==
    {ys \in SeqsUpTo({xs[k] : k \in DOMAIN xs}, Len(xs) + 1) :
        {ys[k] : k \in DOMAIN ys} = {xs[k] : k \in DOMAIN xs}}

\* the rearrangements of each answer list of the inputs
RearrangementsOf == [xs \in AnswerLists |-> Rearrangements(xs)]

\* C8: whether the loop counts an example as correct is the verdict of every
\* reordering, with or without repeated elements, of its gold list, and of
\* every such reordering of its predicted list.
C8_VerdictIgnoresOrderAndRepeats ==
    [][(pc = "for" /\ i' = i + 1) =>
           /\ \A g \in RearrangementsOf[golds[i + 1]] :
                  (correct' = correct + 1) <=> ExampleCorrect(g, preds[i + 1])
           /\ \A p \in RearrangementsOf[preds[i + 1]] :
                  (correct' = correct + 1) <=> ExampleCorrect(golds[i + 1], p)
      ]_vars

\* gold ['a', 'b.'] and prediction ['b', 'A', 'a'] counted as correct
C8_Witness ==
    /\ pc = "for"
    /\ i = 1
    /\ correct = 1
    /\ golds[1] = << <<"a">>, <<"b", ".">> >>
    /\ preds[1] = << <<"b">>, <<"A">>, <<"a">> >>

(***************************************************************************)
(* Properties of split_prediction.                                        *)
(***************************************************************************)
RECURSIVE Fields(_, _, _, _)
\* the pieces of text between occurrences of sep, read character by
\* character: cur is the piece being read, k the next position; a piece is
\* kept, trimmed, when it is not blank
Fields(text, sep, k, cur) ==
    LET piece == Strip(cur, Whitespace)
        kept  == IF piece = <<>> THEN <<>> ELSE <<piece>>
    IN  IF k > Len(text)
        THEN kept
        ELSE IF text[k] = sep
             THEN kept \o Fields(text, sep, k + 1, <<>>)
             ELSE Fields(text, sep, k + 1, Append(cur, text[k]))

\* the normalized pieces, in their order
NormalizedEach(pieces) == [k \in DOMAIN pieces |-> normalize_token(pieces[k])]

\* C5: [normalize_token(text)] when gold_count <= 1; otherwise the
\* normalized non-blank "|" pieces when there are two or more of them (then
\* no comma separates anything), else the normalized non-blank "," pieces,
\* else [normalize_token(text)]; never an empty list.
C5_SplitPrediction ==
    pc = "done" =>
        LET out   == result.value
            bars  == Fields(pred_text, "|", 1, <<>>)
            commas == Fields(pred_text, ",", 1, <<>>)
        IN  /\ result.kind = "return"
            /\ out # <<>>
            /\ gold_count <= 1 => out = <<normalize_token(pred_text)>>
            /\ (gold_count > 1 /\ Len(bars) >= 2) =>
                   (out = NormalizedEach(bars) /\ Len(out) = Len(bars))
            /\ (gold_count > 1 /\ Len(bars) <= 1 /\ commas # <<>>) =>
                   out = NormalizedEach(commas)
            /\ (gold_count > 1 /\ Len(bars) <= 1 /\ commas = <<>>) =>
                   out = <<normalize_token(pred_text)>>

\* "1,1|a" with two gold answers: two pieces, the comma inside the first
\* piece separates nothing
C5_Witness ==
    /\ pc = "done"
    /\ pred_text = <<"1", ",", "1", "|", "a">>
    /\ gold_count = 2
    /\ result = Returned(<< <<"1", "1">>, <<"a">> >>)

(***************************************************************************)
(* Properties of is_answer_correct.                                       *)
(***************************************************************************)
\* the gold answers as a set
GoldSet == {expected_answers[k] : k \in DOMAIN expected_answers}

\* C9: when the normalized prediction contains "don't know", the comparison
\* loop is never entered, and the value returned is TRUE exactly when some
\* gold answer's normalization contains "don't know" or "unknown".
C9_AbstentionRule ==
    Contains(normalize_answer(predicted), DontKnow) =>
        /\ pc # "compare"
        /\ pc = "done" =>
               result = Returned(\E g \in GoldSet :
                            \/ Contains(normalize_answer(g), DontKnow)
                            \/ Contains(normalize_answer(g), Unknown))

\* is_answer_correct("I don't know", ["Paris", "unknown"]) has returned True
C9_Witness ==
    /\ pc = "done"
    /\ predicted = <<"I", " ", "d", "o", "n", "'", "t", " ", "k", "n", "o", "w">>
    /\ expected_answers = << <<"P", "a", "r", "i", "s">>,
                             <<"u", "n", "k", "n", "o", "w", "n">> >>
    /\ result = Returned(TRUE)

\* C10: for a non-empty prediction that is no abstention and a non-empty
\* gold list, the value returned is TRUE exactly when some gold answer has
\* the same normalization as the prediction, or both normalizations, commas
\* removed, parse as numbers less than 1e-6 apart; gold answers that do not
\* parse are passed over.
C10_MatchRule ==
    (/\ pc = "done"
     /\ predicted # <<>>
     /\ expected_answers # <<>>
     /\ ~Contains(normalize_answer(predicted), DontKnow))
        => result = Returned(\E g \in GoldSet :
                        \/ normalize_answer(predicted) = normalize_answer(g)
                        \/ NumbersClose(normalize_answer(predicted),
                                        normalize_answer(g)))

\* is_answer_correct("42", ["Paris", "42.0"]) has returned True: "Paris"
\* does not parse and "42.0" is still compared
C10_Witness ==
    /\ pc = "done"
    /\ predicted = <<"4", "2">>
    /\ expected_answers = << <<"P", "a", "r", "i", "s">>, <<"4", "2", ".", "0">> >>
    /\ result = Returned(TRUE)

\* C11: when the prediction is empty or the gold collection is empty, the
\* call goes from its entry straight to its end, enters neither loop, and
\* returns FALSE, whatever the other argument is.
C11_EmptyInputIsFalse ==
    (predicted = <<>> \/ expected_answers = <<>>) =>
        /\ pc \in {"is_answer_correct", "done"}
        /\ pc = "done" => result = Returned(FALSE)

\* is_answer_correct("", [""]) has returned False
C11_Witness ==
    /\ pc = "done"
    /\ predicted = <<>>
    /\ expected_answers = << <<>> >>
    /\ result = Returned(FALSE)

\* the strict scorer on one example: denotation_accuracy([answers],
\* [split_prediction(prediction, 1)]) == 1.0
StrictVerdict(prediction, answers) ==
    LET p == split_prediction(prediction, 1)
        n == IF LengthsAgree(answers, p) /\ ExampleCorrect(answers, p)
             THEN 1 ELSE 0
    IN  Accuracy(n, <<answers>>) = Returned(One)

\* C13: the two scorers disagree on a numeric input and on an abstention:
\* is_answer_correct("42", ["41.9999995"]) and is_answer_correct("I don't
\* know", ["unknown"]) are TRUE, while the strict scorer rejects both.
C13_ScorersDisagree ==
    (/\ pc = "done"
     /\ \/ /\ predicted = <<"4", "2">>
           /\ expected_answers =
                  << <<"4", "1", ".", "9", "9", "9", "9", "9", "9", "5">> >>
        \/ /\ predicted = <<"I", " ", "d", "o", "n", "'", "t", " ",
                            "k", "n", "o", "w">>
           /\ expected_answers = << Unknown >>)
    => /\ result = Returned(TRUE)
       /\ ~StrictVerdict(predicted, expected_answers)

\* is_answer_correct("I don't know", ["unknown"]) has returned True, and
\* the strict scorer gives 0.0 on the same input
C13_Witness ==
    /\ pc = "done"
    /\ predicted = <<"I", " ", "d", "o", "n", "'", "t", " ",
                     "k", "n", "o", "w">>
    /\ expected_answers = << Unknown >>
    /\ result = Returned(TRUE)
    /\ ~StrictVerdict(predicted, expected_answers)

(***************************************************************************)
(* Properties of normalize_answer.                                        *)
(***************************************************************************)
\* x without its last character when that is a period
WithoutOnePeriod(x) ==
    IF x # <<>> /\ x[Len(x)] = "." THEN SubSeq(x, 1, Len(x) - 1) ELSE x

\* the longest prefix of x that does not end in a period
WithoutPeriods(x) ==
    LET ends == {k \in 0..Len(x) : k = 0 \/ x[k] # "."}
    IN  SubSeq(x, 1, CHOOSE k \in ends : \A m \in ends : m <= k)

\* lowercase and trim, drop the comma of each digit-comma-digit, drop
\* trailing periods as Periods does, turn the dash variants into "-",
\* leave single spaces between the words
AnswerBy(Periods(_), text) ==
    Join(SplitWhitespace(
             ReplaceDashes(Periods(DigitCommas(Strip(Lower(text), Whitespace))))),
         <<" ">>)

\* C12 as stated: normalize_answer strips exactly one trailing period, so
\* that a string ending in ".." keeps one "."
C12_OnePeriodStripped ==
    pc = "done" => ret = AnswerBy(WithoutOnePeriod, s)

\* C12: normalize_answer lowercases, removes the comma of a digit-comma-digit,
\* strips every trailing period, maps the dash variants to "-" and collapses
\* whitespace: the value returned has no upper-case letter, no dash variant
\* and no whitespace other than single spaces between words.
C12_AllPeriodsStripped ==
    pc = "done" =>
        /\ ret = AnswerBy(WithoutPeriods, s)
        /\ ret = Lower(ret)
        /\ \A k \in DOMAIN ret : ret[k] \notin {"U+2013", "U+2014", "U+2212"}
        /\ ret = Join(SplitWhitespace(ret), <<" ">>)

\* normalize_answer("a..") has returned "a"
C12_Witness ==
    /\ pc = "done"
    /\ s = <<"a", ".", ".">>
    /\ ret = <<"a">>

(***************************************************************************)
(* Properties of format_table_token_efficient.                            *)
(***************************************************************************)
\* the columns whose header shares a word with the question, or holds a
\* keyword as a substring
PassingColumns ==
    {k \in DOMAIN table.header :
        \/ Words(table.header[k]) \cap Words(question) # {}
        \/ \E n \in DOMAIN Keywords :
               Contains(Lower(table.header[k]), Keywords[n])}

\* the columns to emit: the passing ones when a question is given and two
\* or more pass, every column otherwise
ExpectedColumns ==
    IF question # <<>> /\ Cardinality(PassingColumns) >= 2
    THEN PassingColumns
    ELSE DOMAIN table.header

\* the members of a set of columns, in the order of the table
InOrder(S, n) == SelectSeq([k \in 1..n |-> k], LAMBDA k : k \in S)

\* C14: the header line holds exactly the headers of the expected columns,
\* trimmed and in the order of the table, and the line of the row holds the
\* cells of the same columns.
C14_ColumnSelection ==
    pc = "done" =>
        LET cols == InOrder(ExpectedColumns, Len(table.header))
        IN  /\ lines[1] =
                  Join([k \in DOMAIN cols |->
                           Strip(table.header[cols[k]], Whitespace)],
                       <<delimiter>>)
            /\ lines[2] =
                  Join([k \in DOMAIN cols |-> table.rows[1][cols[k]]],
                       <<delimiter>>)

\* "which City" asked of Capacity, City, Years: City shares a word, Years
\* holds a keyword, and the two are emitted
C14_Witness ==
    /\ pc = "done"
    /\ question = <<"w", "h", "i", "c", "h", " ", "C", "i", "t", "y">>
    /\ table.header = << <<"C", "a", "p", "a", "c", "i", "t", "y", " ">>,
                         <<"C", "i", "t", "y">>,
                         <<"Y", "e", "a", "r", "s">> >>
    /\ lines = << <<"C", "i", "t", "y", "|", "Y", "e", "a", "r", "s">>, <<"2", "|", "3">> >>

\* the first n members of a list
First(xs, n) == SubSeq(xs, 1, IF n < Len(xs) THEN n ELSE Len(xs))

\* the rows whose cells, joined by spaces and lowercased, hold a word of the
\* question as a substring
KeptRows ==
    SelectSeq(table.rows,
              LAMBDA r : \E w \in Words(question) :
                            Contains(Lower(Join(r, <<" ">>)), w))

\* the rows to emit
ExpectedRows ==
    IF question # <<>> /\ Len(table.rows) > max_rows
    THEN IF Len(KeptRows) < 10
         THEN First(table.rows, max_rows)
         ELSE First(KeptRows, max_rows)
    ELSE First(table.rows, max_rows)

\* C15: the lines after the header line are the renderings of the expected
\* rows: with a question and more rows than max_rows, the first max_rows
\* kept rows when 10 or more are kept and the first max_rows rows of the
\* table otherwise; with no question or no more rows than max_rows, the
\* first max_rows rows.
C15_RowSelection ==
    pc = "done" =>
        Tail(lines) = [k \in DOMAIN ExpectedRows |->
                          Line(ExpectedRows[k], delimiter)]

\* "x q" asked with max_rows = 1 of a table whose first row does not hold
\* "x" and whose ten other rows do: the row emitted is the second
C15_Witness ==
    /\ pc = "done"
    /\ question = <<"x", " ", "q">>
    /\ max_rows = 1
    /\ table.rows = << <<<<"z", "\n", "w">>, <<"2">>>> >>
                     \o [k \in 1..10 |-> <<<<"X", " ", "y">>, <<"1">>>>]
    /\ lines = << <<"k", "|", "v">>, <<"X", " ", "y", "|", "1">> >>

\* C16: the value returned splits at newlines into exactly the header line
\* and one line for each selected row, at most max_rows of them; every line
\* after the first is the rendering of a row of the table; with max_rows = 0
\* or no rows the value returned is the header line alone.  (The questions
\* of SpecRows select every column.)
C16_LineCount ==
    pc = "done" =>
        LET out == Split(result.value, "\n")
        IN  /\ result.kind = "return"
            /\ Len(out) = 1 + Len(ExpectedRows)
            /\ Len(out) - 1 <= max_rows
            /\ out[1] = Line(table.header, delimiter)
            /\ \A n \in 2..Len(out) :
                   \E r \in DOMAIN table.rows :
                       out[n] = Line(table.rows[r], delimiter)
            /\ (max_rows = 0 \/ table.rows = <<>>) =>
                   result.value = Line(table.header, delimiter)

\* two rows rendered with max_rows = 1: the value returned has two lines,
\* and the newline inside the cell has become a space
C16_Witness ==
    /\ pc = "done"
    /\ max_rows = 1
    /\ table.rows = << <<<<"z", "\n", "w">>, <<"2">>>>,
                       <<<<"X", " ", "y">>, <<"1">>>> >>
    /\ result = Returned(<<"k", "|", "v", "\n", "z", " ", "w", "|", "2">>)

\* a row cut or padded with empty strings to the width of the header
Padded(row) ==
    [k \in DOMAIN table.header |-> IF k <= Len(row) THEN row[k] ELSE <<>>]

\* C17: every row is rendered with one field for each header: a missing
\* cell is an empty field, a cell beyond the header is ignored.
C17_RowsPaddedToHeader ==
    pc = "done" =>
        \A r \in DOMAIN table.rows :
            lines[r + 1] = Line(Padded(table.rows[r]), delimiter)

\* x is <1-2 digits>/<1-2 digits>/<4 digits>
IsSlashDate(x) ==
    LET parts == Split(x, "/")
    IN  /\ Len(parts) = 3
        /\ \A n \in 1..3 : \A k \in DOMAIN parts[n] : parts[n][k] \in Digits
        /\ Len(parts[1]) \in {1, 2}
        /\ Len(parts[2]) \in {1, 2}
        /\ Len(parts[3]) = 4

\* the date MM/DD/YYYY as YYYY-MM-DD, month and day padded with a zero
IsoDate(x) ==
    LET parts == Split(x, "/")
        pad(p) == IF Len(p) = 1 THEN <<"0">> \o p ELSE p
    IN  parts[3] \o <<"-">> \o pad(parts[1]) \o <<"-">> \o pad(parts[2])

\* C18: a cell is rewritten as a date only when its scrubbed value is
\* <1-2 digits>/<1-2 digits>/<4 digits>; any other value is emitted as
\* scrubbed.
C18_OnlyDatesRewritten ==
    pc = "done" =>
        LET row == FilteredRow(table.rows[1], Indices(Len(table.header)))
            emitted(x) == IF IsSlashDate(Scrub(x, delimiter))
                          THEN IsoDate(Scrub(x, delimiter))
                          ELSE Scrub(x, delimiter)
        IN  lines[2] = Join([k \in DOMAIN row |-> emitted(row[k])],
                            <<delimiter>>)

\* the number of occurrences of a character
Count(x, c) == Len(SelectSeq(x, LAMBDA ch : ch = c))

\* C19: no cleaned value holds the delimiter or a newline, so the header
\* line and the line of a row of n fields hold exactly n - 1 delimiters.
C19_NoDelimiterInFields ==
    pc = "done" =>
        /\ \A k \in DOMAIN table.rows[1] :
               LET v == clean_value(table.rows[1][k], delimiter)
               IN  ~HasChar(v, delimiter) /\ ~HasChar(v, "\n")
        /\ Count(lines[1], delimiter) = Len(table.header) - 1
        /\ LET row == FilteredRow(table.rows[1], Indices(Len(table.header)))
           IN  row # <<>> => Count(lines[2], delimiter) = Len(row) - 1

(***************************************************************************)
(* Properties of serialize_table_for_prompt.                              *)
(***************************************************************************)
\* x begins with p
HasPrefix(x, p) == Len(x) >= Len(p) /\ SubSeq(x, 1, Len(p)) = p

\* C20: one note line, beginning with "...", is appended when rows are cut
\* by row_limit or columns are cut by col_limit, the header's columns
\* included, and none when nothing is cut; the lines beginning with "Row:"
\* are min(number of rows, row_limit).
C20_SingleTruncationNote ==
    pc = "done" =>
        LET notes == {k \in DOMAIN lines : HasPrefix(lines[k], <<".", ".", ".">>)}
            rowLines == {k \in DOMAIN lines : HasPrefix(lines[k], <<"R", "o", "w", ":">>)}
            cut == \/ Len(table.rows) > row_limit
                   \/ Len(table.header) > col_limit
                   \/ \E k \in DOMAIN table.rows : Len(table.rows[k]) > col_limit
        IN  /\ Cardinality(notes) = IF cut THEN 1 ELSE 0
            /\ Cardinality(rowLines) =
                  IF Len(table.rows) < row_limit THEN Len(table.rows) ELSE row_limit

(***************************************************************************)
(* Properties of run_evaluation_loop.  No answer of the agent is the      *)
(* sentinel, so that a record predicts ERROR exactly when the agent call  *)
(* of its example raised.                                                 *)
(***************************************************************************)
\* C21: the loop returns one record per example, whichever agent calls
\* raise, and every example whose agent call raised is recorded with the
\* prediction ERROR and correct = FALSE, whatever its gold answers are.
C21_RaisedIsIncorrect ==
    /\ pc = "done" => Len(results) = Len(examples)
    /\ \A k \in DOMAIN results :
           results[k].predicted = ERROR => results[k].correct = FALSE

\* the records of results, in the state after the latest handled example
C23_Records ==
    /\ Len(results) = IF pc \in {"agent", "score"} THEN i - 1 ELSE i
    /\ \A k \in DOMAIN results :
           /\ results[k].question = examples[k].question
           /\ results[k].expected = examples[k].answers
    /\ correct_count = Cardinality({k \in DOMAIN results : results[k].correct})
    /\ correct_count <= i

\* a step leaves results alone or appends one record to it
C23_Appends ==
    \/ results' = results
    \/ /\ Len(results') = Len(results) + 1
       /\ SubSeq(results', 1, Len(results)) = results

\* C23: after the i-th example has been handled (answered, failed or
\* skipped), results holds i records in the order of the examples, records
\* already appended are never modified or removed, and correct_count is the
\* number of records with correct = TRUE, at most i.
C23_ResultsAppendOnly == []C23_Records /\ [][C23_Appends]_vars

\* two examples are handled, the first skipped and the second answered
\* correctly
C23_Witness ==
    /\ pc = "done"
    /\ Len(results) = 2
    /\ results[1].predicted = SKIPPED
    /\ results[2].correct
    /\ correct_count = 1

\* C24: after every example the loop handles, an example skipped for its
\* too large table included, one incremental save has been attempted: the
\* attempts are as many as the examples handled so far.
C24_SavedAfterEachExample ==
    pc \in {"for", "done"} => save_calls = i

\* C25: when the agent is invoked for an example, current_table_data is the
\* formatted table of that example (question None, max_rows 500), and what
\* a tool observes meanwhile is computed from that table; before any
\* set_current_table, a tool returns [], 0 or the "No table data available"
\* error.
C25_CurrentTableIsTheExamples ==
    LET own == IF pc = "agent"
               THEN TableData(Join(TableLines(LoopTable(examples[i].table),
                                              <<>>, "|", LoopMaxRows),
                                   <<"\n">>))
               ELSE NoTable
    IN  /\ pc = "agent" => current_table_data = own
        /\ (pc = "agent" /\ observation.tool = "get_table_headers_list")
               => observation.value = get_table_headers_list(own)
        /\ (pc = "agent" /\ observation.tool = "get_table_row_count")
               => observation.value = get_table_row_count(own)
        /\ (pc = "agent" /\ observation.tool = "count_column_values_tool")
               => observation.value =
                      count_column_values_tool(own, <<"h">>, <<"x">>)
        /\ (current_table_data = NoTable
                /\ observation.tool = "get_table_headers_list")
               => observation.value = <<>>
        /\ (current_table_data = NoTable
                /\ observation.tool = "get_table_row_count")
               => observation.value = 0
        /\ (current_table_data = NoTable
                /\ observation.tool = "count_column_values_tool")
               => observation.value = NoTableError

\* the agent works on a second example, whose table differs from the first
\* one's, and has asked for the row count
C25_Witness ==
    /\ pc = "agent"
    /\ i = 2
    /\ examples[1].table = "small"
    /\ examples[2].table = "other"
    /\ observation.tool = "get_table_row_count"
    /\ observation.value = 1

\* a tool is called before any table is set
C25_NoTableWitness ==
    /\ current_table_data = NoTable
    /\ observation.tool = "count_column_values_tool"

(***************************************************************************)
(* Properties of the formatter and the table tools together.              *)
(***************************************************************************)
\* C26: after set_current_table(format_table_token_efficient(table, None,
\* "|", m)), get_table_headers_list() is the list of the cleaned headers of
\* the table, of the same length and order, and get_table_row_count() is
\* min(number of rows, m), tables with an empty header or with rows of
\* empty cells included.
C26_RoundTrip ==
    pc = "done" /\ observation.tool = "inspect" =>
        /\ observation.headers =
               [k \in DOMAIN table.header |->
                   clean_value(Strip(table.header[k], Whitespace), "|")]
        /\ observation.total_rows =
               IF Len(table.rows) < max_rows THEN Len(table.rows) ELSE max_rows

(***************************************************************************)
(* Properties of the loaders.                                             *)
(***************************************************************************)
\* the examples of the lines of a file that are not blank, in file order
RecordsOf(file_lines) ==
    LET kept == SelectSeq(file_lines, LAMBDA line : line.kind = "json")
    IN  [k \in DOMAIN kept |-> ExampleOf(kept[k].value)]

\* C27: for a limit >= 0, load_examples_fallback returns the first
\* min(limit, n) of the n records of the file that are not blank, in file
\* order, none for limit 0; with limit None it returns all n.
C27_AtMostLimit ==
    (pc = "done" /\ result.kind = "return") =>
        LET all == RecordsOf(f.lines)
        IN  /\ limit.kind = "None" => result.value = all
            /\ (limit.kind = "int" /\ limit.value >= 0) =>
                   result.value =
                       SubSeq(all, 1, IF limit.value < Len(all)
                                      THEN limit.value ELSE Len(all))

(***************************************************************************)
(* Properties of ensure_wtq_data.                                         *)
(***************************************************************************)
\* a call that returns, returns the data directory, which is then there
C28_Returns ==
    result.kind = "return" => result.value = DataDirPath /\ data_dir = "present"

\* when a download or an extraction starts, and what follows once the data
\* directory is there
C28_Step ==
    /\ downloads' # downloads => data_dir = "absent" /\ zip_file = "absent"
    /\ extractions' # extractions => data_dir = "absent"
    /\ data_dir = "present" =>
           /\ data_dir' = "present"
           /\ downloads' = downloads
           /\ extractions' = extractions
           /\ pc = "ensure" => result' = Returned(DataDirPath)

\* C28: ensure_wtq_data downloads only when neither the data directory nor
\* the archive exists and extracts only when the data directory does not
\* exist; once a call has returned, the data directory is there, and every
\* later call downloads nothing, extracts nothing and returns the same path.
C28_DownloadAndExtractOnce == []C28_Returns /\ [][C28_Step]_vars

\* a first call has downloaded and extracted, and a later call has returned
\* without doing either again
C28_Witness ==
    /\ ensure_calls = 2
    /\ pc = "idle"
    /\ result = Returned(DataDirPath)
    /\ downloads = 1
    /\ extractions = 1

\* C29: a download that fails or is interrupted leaves no archive at
\* zip_file_path, so that a later call downloads again and never extracts an
\* archive that is not whole.
C29_NoPartialArchiveLeft ==
    /\ (result.kind = "raise" /\ result.value = "RequestException")
           => zip_file = "absent"
    /\ pc = "extract" => zip_file = "complete"

\* C30: load_wtq_test_questions_with_tables returns the first
\* min(max(0, limit), n) examples of the test split in file order, all n for
\* limit None, each with a table; a table that cannot be read leaves its
\* example in place with a record of the error as its table, and
\* format_table_token_efficient returns on such a record (the empty text).
C30_FirstExamplesWithTables ==
    pc \in {"done", "formatted"} =>
        LET all == IF f.kind = "absent" THEN <<>> ELSE f.lines
            cut == IF limit.kind = "None"
                   THEN Len(all)
                   ELSE IF limit.value < 0
                        THEN 0
                        ELSE IF limit.value < Len(all)
                             THEN limit.value ELSE Len(all)
        IN  /\ result.kind = "return"
            /\ Len(result.value) = cut
            /\ \A k \in 1..cut :
                   /\ result.value[k].id = all[k].id
                   /\ "table" \in DOMAIN result.value[k]
                   /\ IF TableFile(all[k].table_name).kind = "absent"
                      THEN "error" \in DOMAIN result.value[k].table
                      ELSE DOMAIN result.value[k].table = {"header", "rows", "name"}
            /\ (pc = "formatted" /\ "error" \in DOMAIN table) => lines = << <<>> >>
            /\ (pc = "formatted" /\ table.name = "csv/1.tsv")
                   => lines = << <<"h", "|", "g">>, <<"x", "|", "y">> >>

\* the split of three examples is cut at two, the second has no table file,
\* and its record of the error has been formatted
C30_Witness ==
    /\ pc = "formatted"
    /\ Len(f.lines) = 3
    /\ limit = IntLimit(2)
    /\ Len(result.value) = 2
    /\ "error" \in DOMAIN result.value[2].table
    /\ table = result.value[2].table

=============================================================================
